---- MODULE Spec2Model ----
(***************************************************************************)
(* A model of the query orchestration pipeline of persona_rag_chatbot:    *)
(* QueryRewriter, ToolPlanner, ToolRouter and Agent (src/src/agent.py).    *)
(*                                                                         *)
(* Text is modelled at the granularity the code inspects it at: a query    *)
(* is a sequence of whitespace-separated words, a tool's content is a      *)
(* sequence of lines (the text joined by "\n"), an answer is the sequence  *)
(* of bracket numbers [n] that occur in it.  Numbers with decimals are     *)
(* scaled integers (weights and coverages in hundredths, scores in         *)
(* thousandths).                                                           *)
(***************************************************************************)
EXTENDS Integers, Sequences, FiniteSets, TLC

VARIABLES
    fnIn,       \* arguments of the call of a stand-alone operation (router, planner)
    fnOut,      \* <<>> while the call is pending, <<result>> once it returned
    pc,         \* position of Agent.run
    inp,        \* run's arguments: query, persona, chat_history
    cfg,        \* construction: llm_available (the cached client), persona_map
    rw,         \* <<>> or <<what rewrite did>>
    rewritten_query,
    persona_res, \* <<>> or <<what PersonaClassifier.classify did>>
    chosen_persona,
    decomp,     \* <<>> or <<the decomposition call and the plan_data acted upon>>
    step,       \* <<>> or <<the single step of the single-step path>>
    multi,      \* the multi-step path: retrieval steps, futures, scratchpad
    final,      \* final_query_meta, final_tool_plan, final_tool_results, final_answer
    outcome,    \* <<>> or <<how the try block of run was left>>
    returned,   \* <<>> or <<what run handed to its caller>>
    trace_log   \* the records appended to trace_logs.jsonl

fnVars == <<fnIn, fnOut>>
agentVars ==
    <<pc, inp, cfg, rw, rewritten_query, persona_res, chosen_persona, decomp, step, multi,
      final, outcome, returned, trace_log>>
vars == <<fnIn, fnOut, agentVars>>

(***************************************************************************)
(* Python values                                                           *)
(***************************************************************************)
None == [py |-> "None"]

\* Exception classes a collaborator (model, tool, driver) can raise; all of
\* them derive from Exception.
ExcTypes ==
    {"RetryError", "ServiceUnavailable", "ValueError", "KeyError",
     "TypeError", "RuntimeError", "ConnectionError"}

Raise(e) == [kind |-> "raise", exc |-> e]
Return(v) == [kind |-> "return", value |-> v]

ToolResult(name, ok, text) ==
    [py |-> "ToolResult", tool_name |-> name, success |-> ok, content |-> text]

(***************************************************************************)
(* ToolRouter (src/src/router/tool_router.py)                             *)
(***************************************************************************)
registry ==
    {"retrieve_clinical_data", "retrieve_summary_data",
     "retrieve_general_text", "query_knowledge_graph"}

NotImplementedContent == <<"[Error: Tool not implemented or misconfigured]">>

ToolErrorContent(e) == <<"An unexpected error occurred in the tool: " \o e>>

\* A router whose fault boundary catches one exception class only.
execute_tool_narrow(tool_name, tool) ==
    IF tool_name \notin registry
    THEN [kind |-> "return", invoked |-> FALSE,
          value |-> ToolResult(tool_name, FALSE, NotImplementedContent)]
    ELSE IF tool.kind = "raise"
         THEN IF tool.exc = "RetryError"
              THEN [kind |-> "return", invoked |-> TRUE,
                    value |-> ToolResult(tool_name, FALSE, ToolErrorContent(tool.exc))]
              ELSE [kind |-> "raise", invoked |-> TRUE, exc |-> tool.exc]
         ELSE [kind |-> "return", invoked |-> TRUE, value |-> tool.value]

\* A router that calls the function it is handed without looking the name up.
execute_tool_no_lookup(tool_name, tool) ==
    IF tool.kind = "raise"
    THEN [kind |-> "return", invoked |-> TRUE,
          value |-> ToolResult(tool_name, FALSE, ToolErrorContent(tool.exc))]
    ELSE [kind |-> "return", invoked |-> TRUE, value |-> tool.value]

\* execute_tool(tool_name, query, query_meta); `tool` is what the registered
\* function does when it is called: Return(value) or Raise(exception).
execute_tool(tool_name, tool) ==
    IF tool_name \notin registry
    THEN [kind |-> "return", invoked |-> FALSE,
          value |-> ToolResult(tool_name, FALSE, NotImplementedContent)]
    ELSE IF tool.kind = "raise"
         THEN [kind |-> "return", invoked |-> TRUE,
               value |-> ToolResult(tool_name, FALSE, ToolErrorContent(tool.exc))]
         ELSE [kind |-> "return", invoked |-> TRUE, value |-> tool.value]

(***************************************************************************)
(* ToolPlanner (src/src/planner/tool_planner.py)                           *)
(* weights and coverages are hundredths, intent scores tenths.  A final    *)
(* score is a double next to a decimal number of thousandths:              *)
(* [milli |-> m, ulp |-> d] is the double d places above the double        *)
(* nearest to m/1000.                                                      *)
(***************************************************************************)
Intents ==
    {"specific_fact_lookup", "simple_summary", "comparative_analysis",
     "general_qa", "unknown"}

DEFAULT_INTENT_SCORE == 5
AgentThreshold == 85
DefaultThreshold == 90
NegligibleCoverage == 10

\* INTENT_TOOL_SCORES.get(intent, {}).get(tool_name, DEFAULT_INTENT_SCORE)
intent_score(intent, tool_name) ==
    CASE intent = "specific_fact_lookup" /\ tool_name = "query_knowledge_graph" -> 9
      [] intent = "specific_fact_lookup" /\ tool_name = "retrieve_clinical_data" -> 7
      [] intent = "specific_fact_lookup" /\ tool_name = "retrieve_general_text" -> 6
      [] intent = "specific_fact_lookup" /\ tool_name = "retrieve_summary_data" -> 4
      [] intent = "simple_summary" /\ tool_name = "retrieve_summary_data" -> 9
      [] intent = "simple_summary" /\ tool_name = "retrieve_general_text" -> 8
      [] intent = "simple_summary" /\ tool_name = "retrieve_clinical_data" -> 5
      [] intent = "simple_summary" /\ tool_name = "query_knowledge_graph" -> 4
      [] intent = "comparative_analysis" /\ tool_name = "retrieve_clinical_data" -> 8
      [] intent = "comparative_analysis" /\ tool_name = "retrieve_summary_data" -> 8
      [] intent = "comparative_analysis" /\ tool_name = "retrieve_general_text" -> 7
      [] intent = "comparative_analysis" /\ tool_name = "query_knowledge_graph" -> 5
      [] intent = "general_qa" /\ tool_name = "retrieve_general_text" -> 9
      [] intent = "general_qa" /\ tool_name = "retrieve_summary_data" -> 7
      [] intent = "general_qa" /\ tool_name = "query_knowledge_graph" -> 6
      [] intent = "general_qa" /\ tool_name = "retrieve_clinical_data" -> 5
      [] OTHER -> DEFAULT_INTENT_SCORE

\* persona.lower().replace(" ", "_")
persona_key(persona) ==
    CASE persona = "Regulatory Specialist" -> "regulatory_specialist"
      [] persona = "Clinical Analyst" -> "clinical_analyst"
      [] OTHER -> persona

\* self.persona_map.get(persona_key, self.persona_map.get("default", []))
persona_prefs(persona_map, persona) ==
    IF persona_key(persona) \in DOMAIN persona_map
    THEN persona_map[persona_key(persona)]
    ELSE IF "default" \in DOMAIN persona_map THEN persona_map["default"] ELSE <<>>

\* {p["tool_name"]: p["weight"] for p in persona_prefs}: a dict keeps the
\* position of a key's first insertion and the value of its last.
persona_tool_weights(prefs) ==
    LET IsFirst(i) == \A j \in 1..(i - 1) : prefs[j].tool_name # prefs[i].tool_name
        LastWeight(n) ==
            prefs[CHOOSE i \in 1..Len(prefs) :
                    /\ prefs[i].tool_name = n
                    /\ \A j \in (i + 1)..Len(prefs) : prefs[j].tool_name # n].weight
        RECURSIVE build(_)
        build(i) ==
            IF i > Len(prefs) THEN <<>>
            ELSE (IF IsFirst(i)
                  THEN <<[name |-> prefs[i].tool_name,
                          weight |-> LastWeight(prefs[i].tool_name)]>>
                  ELSE <<>>) \o build(i + 1)
    IN build(1)

\* Where the IEEE-754 product (weight/100) * (intent_score/10) lies: the
\* number of doubles between it and the double nearest to the exact product,
\* for the weights that occur in the persona tables of this model.
mul_ulp(persona_weight, suitability) ==
    CASE persona_weight = 26 /\ suitability \in {4, 8} -> 1
      [] persona_weight = 75 /\ suitability \in {4, 8} -> 1
      [] persona_weight = 75 /\ suitability \in {6, 7} -> -1
      [] persona_weight = 80 /\ suitability \in {4, 8, 9} -> 1
      [] persona_weight = 80 /\ suitability = 7 -> -1
      [] persona_weight = 90 /\ suitability \in {4, 8} -> 1
      [] OTHER -> 0

\* final_score = persona_weight * intent_score
final_score(persona_weight, suitability) ==
    [milli |-> persona_weight * suitability, ulp |-> mul_ulp(persona_weight, suitability)]

\* a >= b on two final scores
score_ge(a, b) == a.milli > b.milli \/ (a.milli = b.milli /\ a.ulp >= b.ulp)

\* scored_tools: one {"name", "score"} entry per tool of the table
scored_tools(weights, intent) ==
    [i \in 1..Len(weights) |->
        [name |-> weights[i].name,
         score |-> final_score(weights[i].weight,
                               intent_score(intent, weights[i].name))]]

\* scored_tools.sort(key=score, reverse=True): a stable sort, so tools of
\* equal score keep their relative order.
RECURSIVE insert_desc(_, _)
insert_desc(sorted, x) ==
    IF sorted = <<>> THEN <<x>>
    ELSE IF score_ge(Head(sorted).score, x.score)
         THEN <<Head(sorted)>> \o insert_desc(Tail(sorted), x)
         ELSE <<x>> \o sorted

\* A descending sort that puts a tool before the tools of equal score.
RECURSIVE sort_desc_unstable(_)
sort_desc_unstable(s) ==
    LET RECURSIVE insert_before(_, _)
        insert_before(sorted, x) ==
            IF sorted = <<>> THEN <<x>>
            ELSE IF score_ge(x.score, Head(sorted).score)
                 THEN <<x>> \o sorted
                 ELSE <<Head(sorted)>> \o insert_before(Tail(sorted), x)
    IN IF s = <<>> THEN <<>>
       ELSE insert_before(sort_desc_unstable(SubSeq(s, 1, Len(s) - 1)), s[Len(s)])

RECURSIVE sort_desc(_)
sort_desc(s) ==
    IF s = <<>> THEN <<>>
    ELSE insert_desc(sort_desc(SubSeq(s, 1, Len(s) - 1)), s[Len(s)])

\* The side of m/1000 on which the double nearest to it lies (0 when m/1000
\* is a double), for the products of this model that end in 5 thousandths.
nearest_double_side(milli) ==
    CASE milli = 175 -> -1
      [] milli \in {225, 525, 675} -> 1
      [] OTHER -> 0

\* round(score, 2), in hundredths.  round() rounds the exact value of the
\* double: a double that is exactly half way goes to the even neighbour, any
\* other goes to the side it lies on.
round2(score) ==
    LET q == score.milli \div 10
        r == score.milli % 10
        side == IF score.ulp # 0 THEN score.ulp ELSE nearest_double_side(score.milli)
    IN IF r < 5 THEN q
       ELSE IF r > 5 THEN q + 1
       ELSE IF side > 0 THEN q + 1
       ELSE IF side < 0 THEN q
       ELSE IF q % 2 = 0 THEN q ELSE q + 1

ToolPlanItem(name, cov) == [tool_name |-> name, estimated_coverage |-> cov]

\* total_coverage += estimated_coverage; total_coverage >= self.coverage_threshold
\* on doubles: the comparison of the decimal sums, except for the sum of this
\* model that equals the threshold in decimals and is one double below it in
\* binary (0.6 + 0.3 is 0.8999999999999999).
total_reaches(total_coverage, estimated_coverage, coverage_threshold) ==
    /\ total_coverage + estimated_coverage >= coverage_threshold
    /\ ~(total_coverage = 60 /\ estimated_coverage = 30 /\ coverage_threshold = 90)

\* The tool names of a plan: any(t.tool_name == name for t in tool_plan)
PlanNames(items) == {items[i].tool_name : i \in 1..Len(items)}

\* A loop without the negligible-contribution floor.
RECURSIVE plan_loop_no_floor(_, _, _, _)
plan_loop_no_floor(tools, i, total_coverage, coverage_threshold) ==
    IF i > Len(tools) THEN <<>>
    ELSE LET estimated_coverage == round2(tools[i].score) IN
         <<ToolPlanItem(tools[i].name, estimated_coverage)>>
            \o (IF total_reaches(total_coverage, estimated_coverage, coverage_threshold)
                THEN <<>>
                ELSE plan_loop_no_floor(tools, i + 1, total_coverage + estimated_coverage,
                                        coverage_threshold))

\* Step 5 of plan: walk the sorted tools from index i with the running total.
RECURSIVE plan_loop(_, _, _, _)
plan_loop(tools, i, total_coverage, coverage_threshold) ==
    IF i > Len(tools) THEN <<>>
    ELSE LET estimated_coverage == round2(tools[i].score) IN
         IF estimated_coverage <= NegligibleCoverage
         THEN plan_loop(tools, i + 1, total_coverage, coverage_threshold)
         ELSE <<ToolPlanItem(tools[i].name, estimated_coverage)>>
                \o (IF total_reaches(total_coverage, estimated_coverage, coverage_threshold)
                    THEN <<>>
                    ELSE plan_loop(tools, i + 1, total_coverage + estimated_coverage,
                                   coverage_threshold))

\* ToolPlanner.plan(query_meta, persona) of a planner built with
\* coverage_threshold and holding persona_map.
plan(persona_map, coverage_threshold, intent, persona) ==
    LET prefs == persona_prefs(persona_map, persona) IN
    IF prefs = <<>> THEN <<>>
    ELSE plan_loop(sort_desc(scored_tools(persona_tool_weights(prefs), intent)),
                   1, 0, coverage_threshold)

(***************************************************************************)
(* Language-model calls.  What the model does when generate_content is     *)
(* called: Raise(exception) or LLMText(payload); the payload is the part   *)
(* of the text its caller looks at.                                        *)
(***************************************************************************)
LLMText(payload) == [kind |-> "text", text |-> payload]

LLMExc == {"RetryError", "ServiceUnavailable"}

(***************************************************************************)
(* QueryRewriter (src/src/planner/query_rewriter.py)                       *)
(* A query is the sequence of its whitespace-separated words.              *)
(***************************************************************************)
CONVERSATIONAL_TRIGGERS == {"it", "its", "they", "them", "that", "those", "this", "these"}

\* str.lower() on the words that occur in the modelled queries.
lower(w) ==
    CASE w = "It" -> "it"
      [] w = "ITS" -> "its"
      [] w = "It?" -> "it?"
      [] w = "Who" -> "who"
      [] w = "What" -> "what"
      [] w = "Compare" -> "compare"
      [] w = "Identify" -> "identify"
      [] w = "Esketamine?" -> "esketamine?"
      [] w = "Esketamine" -> "esketamine"
      [] w = "Fruquintinib?" -> "fruquintinib?"
      [] w = "A" -> "a"
      [] w = "B" -> "b"
      [] OTHER -> w

\* set(query.lower().split())
query_words(query) == {lower(query[i]) : i \in 1..Len(query)}

\* The text a rewrite model returns: words with optional surrounding
\* whitespace; "" is [words |-> <<>>, pad |-> FALSE].
RewriteText(words, pad) == [words |-> words, pad |-> pad]

\* str.strip() of a rewrite text
strip_text(t) == t.words

\* A rewriter that always asks the model when there is history.
rewrite_no_gate(llm_available, query, chat_history, llm) ==
    IF ~llm_available \/ chat_history = <<>>
    THEN [kind |-> "return", value |-> query, llm_calls |-> 0]
    ELSE IF llm.kind = "raise"
         THEN [kind |-> "raise", exc |-> "NameError", llm_calls |-> 1]
         ELSE IF strip_text(llm.text) # <<>>
              THEN [kind |-> "return", value |-> strip_text(llm.text), llm_calls |-> 1]
              ELSE [kind |-> "return", value |-> query, llm_calls |-> 1]

\* QueryRewriter.rewrite(query, chat_history) with _call_llm_with_retry
\* inlined.  The module never imports google_exceptions, so when
\* generate_content raises, evaluating `except google_exceptions.RetryError`
\* raises NameError, which leaves _call_llm_with_retry and rewrite.
rewrite(llm_available, query, chat_history, llm) ==
    IF ~llm_available \/ chat_history = <<>>
    THEN [kind |-> "return", value |-> query, llm_calls |-> 0]
    ELSE IF CONVERSATIONAL_TRIGGERS \cap query_words(query) = {}
    THEN [kind |-> "return", value |-> query, llm_calls |-> 0]
    ELSE IF llm.kind = "raise"
         THEN [kind |-> "raise", exc |-> "NameError", llm_calls |-> 1]
         ELSE IF strip_text(llm.text) # <<>>
              THEN [kind |-> "return", value |-> strip_text(llm.text), llm_calls |-> 1]
              ELSE [kind |-> "return", value |-> query, llm_calls |-> 1]

(***************************************************************************)
(* PersonaClassifier and QueryClassifier                                   *)
(***************************************************************************)
Personas == {"clinical_analyst", "health_economist", "regulatory_specialist"}

\* A Python str as a value that can be told from None.
PyStr(k) == [py |-> "str", s |-> k]

\* PersonaClassifier.classify(query): the key it returns and the number of
\* model calls it made; the model's text is the stripped token.
persona_classify(llm_available, llm) ==
    IF ~llm_available THEN [key |-> PyStr("regulatory_specialist"), llm_calls |-> 0]
    ELSE IF llm.kind = "raise" THEN [key |-> PyStr("regulatory_specialist"), llm_calls |-> 1]
    ELSE IF llm.text \in Personas THEN [key |-> PyStr(llm.text), llm_calls |-> 1]
    ELSE [key |-> PyStr("regulatory_specialist"), llm_calls |-> 1]

QueryMetadata(intent, graph_suitable) ==
    [py |-> "QueryMetadata", intent |-> intent,
     question_is_graph_suitable |-> graph_suitable]

\* The classifier model's text: parsed JSON [ok |-> TRUE, intent, graph_suitable]
\* or text that extract_json_from_response turns into {} (ok |-> FALSE).
ClassifierJson(intent, graph_suitable) ==
    [ok |-> TRUE, intent |-> intent, graph_suitable |-> graph_suitable]
MalformedJson == [ok |-> FALSE]

\* QueryClassifier.classify(query)
query_classify(llm_available, llm) ==
    IF ~llm_available THEN None
    ELSE IF llm.kind = "raise" THEN None
    ELSE IF ~llm.text.ok THEN None
    ELSE LET intent == IF llm.text.intent = "comparison"
                       THEN "comparative_analysis" ELSE llm.text.intent
         IN IF intent \in Intents
            THEN QueryMetadata(intent, llm.text.graph_suitable)
            ELSE None

\* Model calls one QueryClassifier.classify(query) makes: the classifier
\* keeps nothing between calls, so every call with a model at hand asks it.
query_classify_llm_calls(llm_available) == IF ~llm_available THEN 0 ELSE 1

(***************************************************************************)
(* Agent helpers (src/src/agent.py)                                        *)
(***************************************************************************)
\* Agent._call_llm_with_retry(model, prompt): the text, or None.
call_llm_with_retry(llm_available, llm) ==
    IF ~llm_available THEN None
    ELSE IF llm.kind = "raise" THEN None
    ELSE [py |-> "str", text |-> llm.text]

\* Lines of a content string (its text is the lines joined by "\n").
IsBlankLine(l) == l \in {"", "  "}

LineLen(l) ==
    CASE l = "" -> 0
      [] l = "  " -> 2
      [] l = "---" -> 3
      [] l = "short" -> 5
      [] l = "0123456789" -> 10
      [] l = "0123456789a" -> 11
      [] OTHER -> 40

\* bool(content): a non-empty string
content_truthy(content) == content # <<"">>

\* content.strip(): the lines without leading and trailing blank lines
RECURSIVE drop_leading_blank(_)
drop_leading_blank(lines) ==
    IF lines = <<>> THEN <<>>
    ELSE IF IsBlankLine(Head(lines)) THEN drop_leading_blank(Tail(lines))
    ELSE lines

RECURSIVE drop_trailing_blank(_)
drop_trailing_blank(lines) ==
    IF lines = <<>> THEN <<>>
    ELSE IF IsBlankLine(lines[Len(lines)])
         THEN drop_trailing_blank(SubSeq(lines, 1, Len(lines) - 1))
    ELSE lines

content_strip(content) == drop_trailing_blank(drop_leading_blank(content))

RECURSIVE text_len(_)
text_len(lines) ==
    IF lines = <<>> THEN 0
    ELSE LineLen(Head(lines)) + (IF Len(lines) > 1 THEN 1 ELSE 0) + text_len(Tail(lines))

MinDefinitiveLen == 10

\* res.content.split("\n"): one document per line
split_lines(content) == [i \in 1..Len(content) |-> <<content[i]>>]

\* res.content.split("\n---\n"): a "---" line that is neither the first line
\* of the remaining text nor the last line separates two documents.
RECURSIVE split_sep_from(_, _)
split_sep_from(lines, i) ==
    IF i >= Len(lines) THEN <<lines>>
    ELSE IF lines[i] = "---"
         THEN <<SubSeq(lines, 1, i - 1)>>
                \o split_sep_from(SubSeq(lines, i + 1, Len(lines)), 2)
         ELSE split_sep_from(lines, i + 1)

split_sep(content) == split_sep_from(content, 2)

\* doc and doc.strip()
doc_nonblank(doc) == \E i \in 1..Len(doc) : ~IsBlankLine(doc[i])

RECURSIVE select_nonblank(_)
select_nonblank(docs) ==
    IF docs = <<>> THEN <<>>
    ELSE (IF doc_nonblank(Head(docs)) THEN <<Head(docs)>> ELSE <<>>)
            \o select_nonblank(Tail(docs))

\* A collection loop that does not look at res.success.
RECURSIVE collect_docs_any(_)
collect_docs_any(final_results) ==
    IF final_results = <<>> THEN <<>>
    ELSE LET res == Head(final_results) IN
         (IF res # None /\ content_truthy(res.content)
               /\ content_strip(res.content) # <<>>
          THEN select_nonblank(IF res.tool_name = "vector_search"
                               THEN split_sep(res.content)
                               ELSE split_lines(res.content))
          ELSE <<>>) \o collect_docs_any(Tail(final_results))

\* Lines 132-138: the documents of the successful, non-empty results.
RECURSIVE collect_docs(_)
collect_docs(final_results) ==
    IF final_results = <<>> THEN <<>>
    ELSE LET res == Head(final_results) IN
         (IF res # None /\ res.success /\ content_truthy(res.content)
               /\ content_strip(res.content) # <<>>
          THEN select_nonblank(IF res.tool_name = "vector_search"
                               THEN split_sep(res.content)
                               ELSE split_lines(res.content))
          ELSE <<>>) \o collect_docs(Tail(final_results))

\* A line that starts with "Citation: ", and the text after that prefix.
IsCitationLine(l) == l \in {"Citation: c1", "Citation: c2", "Citation: c3"}

CitationText(l) ==
    CASE l = "Citation: c1" -> "c1"
      [] l = "Citation: c2" -> "c2"
      [] l = "Citation: c3" -> "c3"
      [] OTHER -> l

\* Index of the first "\nCitation: " of doc at or after line i (0 if none):
\* a citation line that is not the first line of the document.
RECURSIVE next_citation(_, _)
next_citation(doc, i) ==
    IF i > Len(doc) THEN 0
    ELSE IF i >= 2 /\ IsCitationLine(doc[i]) THEN i
    ELSE next_citation(doc, i + 1)

\* parts = doc.split("\nCitation: "): parts[0] and, when present, parts[1]
doc_parts(doc) ==
    LET c == next_citation(doc, 2) IN
    IF c = 0 THEN <<doc>>
    ELSE LET n == next_citation(doc, c + 1)
             last == IF n = 0 THEN Len(doc) ELSE n - 1
         IN <<SubSeq(doc, 1, c - 1),
              <<CitationText(doc[c])>> \o SubSeq(doc, c + 1, last)>>

\* Lines 151-156
evidence_texts(ranked_docs) == [i \in 1..Len(ranked_docs) |-> doc_parts(ranked_docs[i])[1]]

RECURSIVE citation_links(_)
citation_links(ranked_docs) ==
    IF ranked_docs = <<>> THEN <<>>
    ELSE (IF Len(doc_parts(Head(ranked_docs))) > 1
          THEN <<doc_parts(Head(ranked_docs))[2]>> ELSE <<>>)
            \o citation_links(Tail(ranked_docs))

RerankFallbackTop == 5

\* documents[:n]
take(documents, n) == SubSeq(documents, 1, IF Len(documents) < n THEN Len(documents) ELSE n)

\* [documents[i] for i in best_indices if i < len(documents)]: an index below
\* zero counts from the end of the list, and one below -len raises IndexError.
RECURSIVE pick_documents(_, _)
pick_documents(documents, best_indices) ==
    IF best_indices = <<>> THEN [kind |-> "return", value |-> <<>>]
    ELSE LET i == Head(best_indices)
             rest == pick_documents(documents, Tail(best_indices))
         IN IF i >= Len(documents) THEN rest
            ELSE IF i < 0 - Len(documents) THEN [kind |-> "raise", exc |-> "IndexError"]
            ELSE IF rest.kind = "raise" THEN rest
            ELSE [kind |-> "return",
                  value |-> <<documents[IF i >= 0 THEN i + 1 ELSE Len(documents) + i + 1]>>
                                \o rest.value]

\* The reranking model's text: a JSON list of indices, or anything else.
RerankList(indices) == [is_list |-> TRUE, indices |-> indices]
RerankNotAList == [is_list |-> FALSE, indices |-> <<>>]

\* A reranker whose fallback hands back every document.
rerank_no_truncation(llm_available, documents, llm) ==
    IF ~llm_available \/ documents = <<>>
    THEN [kind |-> "return", value |-> documents, llm_calls |-> 0]
    ELSE LET response_text == call_llm_with_retry(llm_available, llm) IN
         IF response_text = None
         THEN [kind |-> "return", value |-> documents, llm_calls |-> 1]
         ELSE IF ~response_text.text.is_list
         THEN [kind |-> "return", value |-> documents, llm_calls |-> 1]
         ELSE LET picked == pick_documents(documents, response_text.text.indices) IN
              IF picked.kind = "raise"
              THEN [kind |-> "raise", exc |-> picked.exc, llm_calls |-> 1]
              ELSE [kind |-> "return", value |-> picked.value, llm_calls |-> 1]

\* Agent._rerank_with_gemini(query, documents)
rerank_with_gemini(llm_available, documents, llm) ==
    IF ~llm_available \/ documents = <<>>
    THEN [kind |-> "return", value |-> documents, llm_calls |-> 0]
    ELSE LET response_text == call_llm_with_retry(llm_available, llm) IN
         IF response_text = None
         THEN [kind |-> "return", value |-> take(documents, RerankFallbackTop), llm_calls |-> 1]
         ELSE IF ~response_text.text.is_list
         THEN [kind |-> "return", value |-> take(documents, RerankFallbackTop), llm_calls |-> 1]
         ELSE LET picked == pick_documents(documents, response_text.text.indices) IN
              IF picked.kind = "raise"
              THEN [kind |-> "raise", exc |-> picked.exc, llm_calls |-> 1]
              ELSE [kind |-> "return", value |-> picked.value, llm_calls |-> 1]

\* An answer text is the sequence of the numbers of its bracket citations
\* [n], in order of occurrence: re.findall(r'\[(\d+)\]', answer_text).
AnswerText(cites) == [cites |-> cites]

\* The used indices from the highest down.
RECURSIVE sorted_list_desc(_)
sorted_list_desc(S) ==
    IF S = {} THEN <<>>
    ELSE LET m == CHOOSE x \in S : \A y \in S : x >= y
         IN <<m>> \o sorted_list_desc(S \ {m})

\* sorted(list(used_indices))
RECURSIVE sorted_list(_)
sorted_list(S) ==
    IF S = {} THEN <<>>
    ELSE LET m == CHOOSE x \in S : \A y \in S : x <= y
         IN <<m>> \o sorted_list(S \ {m})

\* Lines 178-183: the links of the used indices, each link once.  An index
\* of -1 (the answer cites [0]) passes `idx < len(citation_links)` and reads
\* citation_links[-1]: the last link, or IndexError when there is none.
RECURSIVE used_links(_, _, _)
used_links(indices, links, acc) ==
    IF indices = <<>> THEN [kind |-> "return", value |-> acc]
    ELSE LET idx == Head(indices) IN
         IF idx >= Len(links) THEN used_links(Tail(indices), links, acc)
         ELSE IF idx < 0 - Len(links) THEN [kind |-> "raise", exc |-> "IndexError"]
         ELSE LET link == links[IF idx >= 0 THEN idx + 1 ELSE Len(links) + idx + 1] IN
              used_links(Tail(indices), links,
                         IF \E k \in 1..Len(acc) : acc[k] = link THEN acc
                         ELSE Append(acc, link))

\* Answers are Python strings: one of the fixed messages, or a synthesized
\* text with the references section that was appended to it.
Str(msg, cites, has_references, references, banner) ==
    [py |-> "str", msg |-> msg, cites |-> cites, has_references |-> has_references,
     references |-> references, banner |-> banner]

Fixed(msg) == Str(msg, <<>>, FALSE, <<>>, "")

MsgTrouble == "I had trouble understanding the query."
MsgNoStrategy == "I don't have a strategy for this query."
MsgNothing == "I searched but could not find any relevant details."
MsgNotRelevant == "I found some information, but it did not seem relevant."
MsgHighTraffic == "I'm sorry, the AI models I rely on are currently experiencing high traffic. Please try your question again in a few moments."
MsgCritical == "I encountered a critical error processing your request. Please check the system logs for more details."

\* Lines 171-185: final_response of a synthesized answer.
final_response(intent, answer_text, links) ==
    IF intent = "simple_summary"
    THEN [kind |-> "return", value |-> Str("", answer_text.cites, FALSE, <<>>, "")]
    ELSE LET used_indices == {answer_text.cites[k] - 1 : k \in 1..Len(answer_text.cites)} IN
         IF used_indices = {}
         THEN [kind |-> "return", value |-> Str("", answer_text.cites, FALSE, <<>>, "")]
         ELSE LET used == used_links(sorted_list(used_indices), links, <<>>) IN
              IF used.kind = "raise" THEN used
              ELSE [kind |-> "return",
                    value |-> Str("", answer_text.cites, TRUE, used.value, "")]

(***************************************************************************)
(* Agent._run_single_rag_step (src/src/agent.py, lines 106-187)            *)
(* env holds what the collaborators do when called: cls (classification    *)
(* model), kg and vec (the registered tool functions), rr (reranking       *)
(* model), syn (synthesis model).  The step is a pipeline of stages over a *)
(* record st; a stage leaves a finished (done) or raised step alone.       *)
(***************************************************************************)
StepStart ==
    [kind |-> "return", exc |-> "", done |-> FALSE, answer |-> Fixed(""),
     query_meta |-> None, tool_plan |-> <<>>, final_results |-> <<>>,
     router_calls |-> <<>>, tools_invoked |-> <<>>, kg_success |-> FALSE,
     all_docs |-> <<>>, ranked_docs |-> <<>>, rerank_calls |-> 0, synth_calls |-> 0,
     evidence |-> <<>>, links |-> <<>>, answer_text |-> AnswerText(<<>>)]

step_raise(st, e) == [st EXCEPT !.kind = "raise", !.exc = e, !.done = TRUE]
step_return(st, msg) == [st EXCEPT !.answer = Fixed(msg), !.done = TRUE]
step_live(st) == st.kind = "return" /\ ~st.done

\* A step that goes on to retrieval with whatever plan it got.
step_classify_any_plan(llm_available, persona_map, persona, cls) ==
    LET query_meta == query_classify(llm_available, cls) IN
    IF query_meta = None THEN step_return(StepStart, MsgTrouble)
    ELSE [StepStart EXCEPT !.query_meta = query_meta,
                           !.tool_plan = plan(persona_map, AgentThreshold,
                                              query_meta.intent, persona)]

\* Lines 108-112
step_classify_plan(llm_available, persona_map, persona, cls) ==
    LET query_meta == query_classify(llm_available, cls) IN
    IF query_meta = None THEN step_return(StepStart, MsgTrouble)
    ELSE LET tool_plan == plan(persona_map, AgentThreshold, query_meta.intent, persona) IN
         IF tool_plan = <<>>
         THEN step_return([StepStart EXCEPT !.query_meta = query_meta], MsgNoStrategy)
         ELSE [StepStart EXCEPT !.query_meta = query_meta, !.tool_plan = tool_plan]

\* Lines 118-124
step_graph(st, kg_tool) ==
    IF ~step_live(st) THEN st
    ELSE IF ~(st.query_meta.question_is_graph_suitable
              /\ "query_knowledge_graph" \in PlanNames(st.tool_plan))
    THEN st
    ELSE LET call == execute_tool("query_knowledge_graph", kg_tool)
             st1 == [st EXCEPT !.router_calls = Append(@, "query_knowledge_graph"),
                               !.tools_invoked = IF call.invoked
                                                 THEN Append(@, "query_knowledge_graph")
                                                 ELSE @]
         IN IF call.kind = "raise" THEN step_raise(st1, call.exc)
            ELSE LET kg_result == call.value
                     st2 == [st1 EXCEPT !.final_results = Append(@, kg_result)]
                 IN IF kg_result = None THEN step_raise(st2, "AttributeError")
                    ELSE [st2 EXCEPT !.kg_success =
                             /\ kg_result.success
                             /\ content_truthy(kg_result.content)
                             /\ text_len(content_strip(kg_result.content)) > MinDefinitiveLen]

\* Lines 127-129 without the `not kg_success` condition.
step_vector_always(st, vec_tool) ==
    IF ~step_live(st) THEN st
    ELSE IF ~("vector_search" \in PlanNames(st.tool_plan)) THEN st
    ELSE LET call == execute_tool("vector_search", vec_tool)
             st1 == [st EXCEPT !.router_calls = Append(@, "vector_search"),
                               !.tools_invoked = IF call.invoked
                                                 THEN Append(@, "vector_search") ELSE @]
         IN IF call.kind = "raise" THEN step_raise(st1, call.exc)
            ELSE [st1 EXCEPT !.final_results = Append(@, call.value)]

\* Lines 127-129
step_vector(st, vec_tool) ==
    IF ~step_live(st) THEN st
    ELSE IF ~(~st.kg_success /\ "vector_search" \in PlanNames(st.tool_plan)) THEN st
    ELSE LET call == execute_tool("vector_search", vec_tool)
             st1 == [st EXCEPT !.router_calls = Append(@, "vector_search"),
                               !.tools_invoked = IF call.invoked
                                                 THEN Append(@, "vector_search") ELSE @]
         IN IF call.kind = "raise" THEN step_raise(st1, call.exc)
            ELSE [st1 EXCEPT !.final_results = Append(@, call.value)]

\* Lines 132-141
step_collect(st) ==
    IF ~step_live(st) THEN st
    ELSE LET all_docs == collect_docs(st.final_results) IN
         IF all_docs = <<>> THEN step_return(st, MsgNothing)
         ELSE [st EXCEPT !.all_docs = all_docs]

\* Lines 143-149
step_rank(st, llm_available, rr) ==
    IF ~step_live(st) THEN st
    ELSE IF st.kg_success THEN [st EXCEPT !.ranked_docs = st.all_docs]
    ELSE LET r == rerank_with_gemini(llm_available, st.all_docs, rr)
             st1 == [st EXCEPT !.rerank_calls = @ + 1]
         IN IF r.kind = "raise" THEN step_raise(st1, r.exc)
            ELSE IF r.value = <<>> THEN step_return(st1, MsgNotRelevant)
            ELSE [st1 EXCEPT !.ranked_docs = r.value]

\* Lines 151-169
step_synthesize(st, llm_available, syn) ==
    IF ~step_live(st) THEN st
    ELSE LET st1 == [st EXCEPT !.evidence = evidence_texts(st.ranked_docs),
                               !.links = citation_links(st.ranked_docs),
                               !.synth_calls = @ + 1]
             answer_text == call_llm_with_retry(llm_available, syn)
         IN IF answer_text = None
            THEN step_raise([st1 EXCEPT !.answer_text = None], "RetryError")
            ELSE [st1 EXCEPT !.answer_text = answer_text.text]

\* Lines 171-187
step_references(st) ==
    IF ~step_live(st) THEN st
    ELSE LET r == final_response(st.query_meta.intent, st.answer_text, st.links) IN
         IF r.kind = "raise" THEN step_raise(st, r.exc)
         ELSE [st EXCEPT !.answer = r.value, !.done = TRUE]

\* _run_single_rag_step(query, persona)
run_single_rag_step(llm_available, persona_map, persona, env) ==
    step_references(
      step_synthesize(
        step_rank(
          step_collect(
            step_vector(
              step_graph(
                step_classify_plan(llm_available, persona_map, persona, env.cls),
                env.kg),
              env.vec)),
          llm_available, env.rr),
        llm_available, env.syn))

\* The outcomes of a collaborator worth drawing: every one of S when what
\* the stage Op does depends on it, one of them when the stage does not
\* call the collaborator.
Drawn(S, Op(_)) ==
    IF \A x, y \in S : Op(x) = Op(y) THEN {CHOOSE x \in S : TRUE} ELSE S

\* {run_single_rag_step(llm_available, persona_map, persona, env) : env \in
\* envs}, for envs a set of records [cls : .., kg : .., vec : .., rr : .., syn : ..],
\* computed stage by stage.
single_rag_step_results(llm_available, persona_map, persona, cls_set, kg_set, vec_set, rr_set, syn_set) ==
    UNION {
      LET s1 == step_classify_plan(llm_available, persona_map, persona, c)
          G(k) == step_graph(s1, k)
      IN UNION {
           LET V(v) == step_collect(step_vector(G(k), v)) IN
           UNION {
             LET R(r) == step_rank(V(v), llm_available, r) IN
             UNION {
               LET S(y) == step_references(step_synthesize(R(r), llm_available, y)) IN
               {S(y) : y \in Drawn(syn_set, S)}
               : r \in Drawn(rr_set, R)}
             : v \in Drawn(vec_set, V)}
           : k \in Drawn(kg_set, G)}
      : c \in cls_set}

(***************************************************************************)
(* Agent.run (src/src/agent.py, lines 189-269)                             *)
(***************************************************************************)
NoMulti ==
    [retrieval_steps |-> <<>>, logic_instruction |-> <<>>, sub_results |-> <<>>,
     completed |-> <<>>, scratchpad |-> <<>>, synth_calls |-> 0,
     synthesis_result |-> <<>>]

NoFinal ==
    [query_meta |-> None, tool_plan |-> <<>>, tool_results |-> <<>>, answer |-> Fixed("")]

\* The agent before any run: the state the stand-alone specifications keep.
AgentIdle ==
    /\ pc = "idle"
    /\ inp = [query |-> <<>>, persona |-> "automatic", chat_history |-> <<>>]
    /\ cfg = [llm_available |-> FALSE, persona_map |-> [k \in {} |-> <<>>]]
    /\ rw = <<>>
    /\ rewritten_query = <<>>
    /\ persona_res = <<>>
    /\ chosen_persona = ""
    /\ decomp = <<>>
    /\ step = <<>>
    /\ multi = NoMulti
    /\ final = NoFinal
    /\ outcome = <<>>
    /\ returned = <<>>
    /\ trace_log = <<>>

\* " ".join(word.capitalize() for word in chosen_persona.split("_"))
persona_display_name(p) ==
    CASE p = "regulatory_specialist" -> "Regulatory Specialist"
      [] p = "clinical_analyst" -> "Clinical Analyst"
      [] p = "health_economist" -> "Health Economist"
      [] OTHER -> p

\* Line 259: the banner is added when the caller asked for "automatic".
with_banner(persona, display_name, synthesis_result) ==
    IF persona = "automatic"
    THEN [synthesis_result EXCEPT !.banner = display_name]
    ELSE synthesis_result

\* An except chain that handles RetryError only.
run_except_retry_only(e) ==
    IF e = "RetryError" THEN Return(Fixed(MsgHighTraffic)) ELSE Raise(e)

\* An except chain without the RetryError clause.
run_except_generic(e) == Return(Fixed(MsgCritical))

\* Lines 261-266: the except clauses of run.
run_except(e) ==
    IF e = "RetryError" THEN Return(Fixed(MsgHighTraffic)) ELSE Return(Fixed(MsgCritical))

\* log_trace(...): the record is built outside the try block, so a tool
\* result without model_dump (None) raises AttributeError before the write.
TraceRecord(query, persona, query_meta, tool_plan, tool_results, final_answer) ==
    [query |-> query, persona |-> persona,
     intent |-> IF query_meta # None THEN query_meta.intent ELSE "classification_failed",
     tool_plan |-> tool_plan, tool_results |-> tool_results,
     final_answer_preview |-> IF final_answer # Fixed("") THEN final_answer ELSE Fixed("N/A")]

log_trace(query, persona, query_meta, tool_plan, tool_results, final_answer) ==
    IF \E i \in 1..Len(tool_results) : tool_results[i] = None
    THEN [kind |-> "raise", exc |-> "AttributeError", written |-> <<>>]
    ELSE [kind |-> "return", exc |-> "",
          written |-> <<TraceRecord(query, persona, query_meta, tool_plan,
                                      tool_results, final_answer)>>]

\* A trace call placed at the end of the try block: skipped when it raises.
trace_calls_on_return(out) == IF out.kind = "return" THEN 1 ELSE 0

\* Lines 267-269: the finally clause calls log_trace once, however the try
\* block was left.
trace_calls(out) == 1

\* The decomposition model's text after extract_json_from_response: a JSON
\* object (its keys may be missing, its plan may be no list), a JSON array,
\* or {} for text that does not parse.
DecompDict(requires, has_plan, plan_is_list, subqs) ==
    [shape |-> "dict", requires |-> requires, has_plan |-> has_plan,
     plan_is_list |-> plan_is_list, plan |-> subqs]
DecompArray == [shape |-> "list"]
DecompUnparsed == DecompDict(FALSE, FALSE, TRUE, <<>>)

\* Lines 204-217: the decomposition call and the choice of the path.
decompose(llm_available, rewritten, llm) ==
    LET text == call_llm_with_retry(llm_available, llm)
        plan_data == IF text = None
                     THEN DecompDict(FALSE, TRUE, TRUE, <<rewritten>>)
                     ELSE text.text
    IN IF plan_data.shape = "list" THEN [kind |-> "raise", exc |-> "AttributeError"]
       ELSE LET requires_decomposition == plan_data.requires
                subqs == IF plan_data.has_plan THEN plan_data.plan ELSE <<rewritten>>
            IN IF plan_data.has_plan /\ ~plan_data.plan_is_list
               THEN [kind |-> "raise", exc |-> "TypeError"]
               ELSE IF ~requires_decomposition \/ Len(subqs) <= 1
               THEN IF subqs = <<>>
                    THEN [kind |-> "raise", exc |-> "IndexError"]
                    ELSE [kind |-> "return", single |-> TRUE,
                          requires_decomposition |-> requires_decomposition,
                          plan |-> subqs]
               ELSE [kind |-> "return", single |-> FALSE,
                     requires_decomposition |-> requires_decomposition, plan |-> subqs]

\* any(keyword in sub_q.lower() for keyword in LOGIC_KEYWORDS): the words
\* of the modelled sub-questions that contain a keyword as a substring.
has_logic_keyword(sub_q) ==
    \E i \in 1..Len(sub_q) :
        lower(sub_q[i]) \in {"identify", "compare", "contrast", "common",
                             "difference", "both", "commonly", "differences"}

\* A split that keeps the first sub-question with a keyword.
RECURSIVE first_logic(_)
first_logic(subqs) ==
    IF subqs = <<>> THEN <<>>
    ELSE IF has_logic_keyword(Head(subqs)) THEN <<Head(subqs)>>
    ELSE first_logic(Tail(subqs))

\* Lines 228-235: logic_instruction (<<>> when none, else <<sub_q>>) and
\* retrieval_steps.
RECURSIVE last_logic(_)
last_logic(subqs) ==
    IF subqs = <<>> THEN <<>>
    ELSE IF has_logic_keyword(subqs[Len(subqs)]) THEN <<subqs[Len(subqs)]>>
    ELSE last_logic(SubSeq(subqs, 1, Len(subqs) - 1))

RECURSIVE non_logic(_)
non_logic(subqs) ==
    IF subqs = <<>> THEN <<>>
    ELSE (IF has_logic_keyword(Head(subqs)) THEN <<>> ELSE <<Head(subqs)>>)
            \o non_logic(Tail(subqs))

retrieval_steps_of(subqs) ==
    IF non_logic(subqs) = <<>> /\ last_logic(subqs) # <<>> THEN subqs ELSE non_logic(subqs)

\* Membership in a sequence: `x in list`
InSeq(x, seq) == \E i \in 1..Len(seq) : seq[i] = x

\* Lines 242-251: the scratchpad, in submission order.
Observation(sub_q, sub_answer) == [kind |-> "observation", sub_q |-> sub_q, answer |-> sub_answer]
FinalInstruction(sub_q) == [kind |-> "instruction", sub_q |-> sub_q, answer |-> Fixed("")]

\* A scratchpad that leaves out the sub-questions whose step came back with
\* one of the fixed messages.
scratchpad_drop_failed(retrieval_steps, sub_results, logic_instruction) ==
    LET kept == {i \in 1..Len(retrieval_steps) : sub_results[i][1].answer.msg = ""}
        RECURSIVE obs(_)
        obs(i) == IF i > Len(retrieval_steps) THEN <<>>
                  ELSE (IF i \in kept
                        THEN <<Observation(retrieval_steps[i], sub_results[i][1].answer)>>
                        ELSE <<>>) \o obs(i + 1)
    IN obs(1) \o (IF logic_instruction # <<>> /\ ~InSeq(logic_instruction[1], retrieval_steps)
                  THEN <<FinalInstruction(logic_instruction[1])>> ELSE <<>>)

\* A scratchpad whose observations stand in the reverse of submission order.
scratchpad_reversed(retrieval_steps, sub_results, logic_instruction) ==
    LET n == Len(retrieval_steps) IN
    [i \in 1..n |-> Observation(retrieval_steps[n + 1 - i], sub_results[n + 1 - i][1].answer)]
        \o (IF logic_instruction # <<>> /\ ~InSeq(logic_instruction[1], retrieval_steps)
            THEN <<FinalInstruction(logic_instruction[1])>> ELSE <<>>)

scratchpad_of(retrieval_steps, sub_results, logic_instruction) ==
    [i \in 1..Len(retrieval_steps) |-> Observation(retrieval_steps[i], sub_results[i][1].answer)]
        \o (IF logic_instruction # <<>> /\ ~InSeq(logic_instruction[1], retrieval_steps)
            THEN <<FinalInstruction(logic_instruction[1])>> ELSE <<>>)

RECURSIVE all_tool_results(_)
all_tool_results(sub_results) ==
    IF sub_results = <<>> THEN <<>>
    ELSE Head(sub_results)[1].final_results \o all_tool_results(Tail(sub_results))

\* [future.result() for future in sub_futures]: the first future, in
\* submission order, whose step raised re-raises its exception (0 if none).
first_raised(sub_results) ==
    IF \E i \in 1..Len(sub_results) : sub_results[i][1].kind = "raise"
    THEN CHOOSE i \in 1..Len(sub_results) :
            /\ sub_results[i][1].kind = "raise"
            /\ \A j \in 1..(i - 1) : sub_results[j][1].kind # "raise"
    ELSE 0

\* Contents a tool returns: "" and one serialized graph fact with its citation.
EmptyContent == <<"">>
OneFact == <<"Evidence from graph: ESKETAMINE has sponsor JANSSEN.", "Citation: c1">>

\* The persona map when the YAML file could not be loaded: {}
NoPersonaMap == [k \in {} |-> <<>>]

(***************************************************************************)
(* The inputs of a run and what the collaborators may do                   *)
(***************************************************************************)
MaxSubQuestions == 2

QSponsor == <<"Who", "is", "the", "sponsor", "for", "Esketamine?">>
QIts == <<"what", "is", "its", "use?">>
QItsUpper == <<"What", "about", "ITS", "use">>
QItPunct == <<"What", "is", "it?">>
QRewritten == <<"What", "is", "the", "use", "of", "Esketamine?">>
Queries == {QSponsor, QIts, QItsUpper, QItPunct}

ChatHistory == <<"user: Who is the sponsor for Esketamine?", "assistant: Janssen-Cilag.">>
Histories == {<<>>, ChatHistory}
RunPersonas == {"automatic", "regulatory_specialist"}

\* Two shapes of config/persona_tool_map.yml: tool names as the router
\* registers them, and tool names as the agent's step looks for them.
Pref(t, w) == [tool_name |-> t, weight |-> w]
PersonaMapRegistry ==
    [k \in {"regulatory_specialist", "default"} |->
        IF k = "regulatory_specialist"
        THEN <<Pref("query_knowledge_graph", 100), Pref("retrieve_general_text", 80)>>
        ELSE <<Pref("retrieve_general_text", 100), Pref("query_knowledge_graph", 50)>>]
PersonaMapAgent ==
    [k \in {"regulatory_specialist", "default"} |->
        IF k = "regulatory_specialist"
        THEN <<Pref("query_knowledge_graph", 90), Pref("vector_search", 100)>>
        ELSE <<Pref("vector_search", 100)>>]
PersonaMaps == {PersonaMapRegistry, PersonaMapAgent, NoPersonaMap}

RewriteLLM ==
    {Raise(e) : e \in LLMExc}
        \cup {LLMText(RewriteText(QRewritten, TRUE)),
              LLMText(RewriteText(<<>>, FALSE)), LLMText(RewriteText(<<>>, TRUE))}

PersonaLLM == {Raise("RetryError"), LLMText("clinical_analyst"), LLMText("Clinical analyst.")}

SubQA == <<"Who", "sponsors", "A">>
SubQB == <<"Who", "sponsors", "B">>
SubQC == <<"Who", "sponsors", "C">>
SubQLogic == <<"Identify", "the", "common", "sponsor">>
SubQCompare == <<"Compare", "A", "and", "B">>
SubQPool == <<SubQA, SubQB, SubQC>>

DecompLLM(rewritten) ==
    {Raise("RetryError"), LLMText(DecompUnparsed), LLMText(DecompArray),
     LLMText(DecompDict(FALSE, TRUE, TRUE, <<rewritten>>)),
     LLMText(DecompDict(FALSE, TRUE, TRUE, <<SubQA>>)),
     LLMText(DecompDict(TRUE, TRUE, FALSE, <<>>)),
     LLMText(DecompDict(TRUE, TRUE, TRUE, <<SubQLogic, SubQLogic>>)),
     LLMText(DecompDict(TRUE, TRUE, TRUE, <<SubQCompare, SubQA, SubQLogic>>))}
        \cup {LLMText(DecompDict(TRUE, TRUE, TRUE, SubSeq(SubQPool, 1, k))) :
                k \in 0..MaxSubQuestions}
        \cup {LLMText(DecompDict(TRUE, TRUE, TRUE, Append(SubSeq(SubQPool, 1, k), SubQLogic))) :
                k \in 1..(MaxSubQuestions - 1)}

KG == "query_knowledge_graph"
TwoFacts ==
    <<"Evidence from graph: ESKETAMINE has sponsor JANSSEN.", "Citation: c1", "---",
      "Evidence from graph: ESKETAMINE has form NASAL SPRAY.", "Citation: c2">>
KGContents == {EmptyContent, <<"  ">>, <<"short">>, <<"0123456789">>, <<"0123456789a">>,
               OneFact, TwoFacts}

KGBehaviours ==
    {Return(ToolResult(KG, TRUE, c)) : c \in KGContents}
        \cup {Return(ToolResult(KG, FALSE, <<"Clients not available.">>)), Return(None)}
        \cup {Raise(e) : e \in {"ValueError", "RetryError"}}

VectorBehaviours ==
    {Return(ToolResult("vector_search", TRUE,
        <<"Evidence from document: text", "Citation: c3">>))}

ClassifierLLM ==
    {Raise("RetryError"), LLMText(MalformedJson), LLMText(ClassifierJson("bogus", TRUE))}
        \cup {LLMText(ClassifierJson(i, g)) :
                i \in {"specific_fact_lookup", "simple_summary"}, g \in BOOLEAN}

RerankLLM ==
    {Raise("RetryError"), LLMText(RerankNotAList)}
        \cup {LLMText(RerankList(l)) : l \in {<<>>, <<0>>, <<1, 0>>, <<7>>, <<-1>>, <<-9>>}}

SynthesisLLM ==
    {Raise("RetryError")}
        \cup {LLMText(AnswerText(c)) : c \in {<<>>, <<1>>, <<2>>, <<0>>, <<2, 1>>}}

\* The sub-question steps of a multi-step plan draw from fewer outcomes.
SubClassifierLLM ==
    {Raise("RetryError"), LLMText(ClassifierJson("specific_fact_lookup", TRUE))}
SubKGBehaviours ==
    {Return(ToolResult(KG, TRUE, OneFact)),
     Return(ToolResult(KG, FALSE, <<"Clients not available.">>)), Return(None)}
SubSynthesisLLM == {Raise("RetryError"), LLMText(AnswerText(<<1>>))}

(***************************************************************************)
(* Agent.run as a state machine                                            *)
(***************************************************************************)
AgentInit ==
    /\ fnIn = <<>>
    /\ fnOut = <<>>
    /\ pc = "rewrite"
    /\ inp \in [query : Queries, persona : RunPersonas, chat_history : Histories]
    /\ cfg \in [llm_available : BOOLEAN, persona_map : PersonaMaps]
    /\ rw = <<>>
    /\ rewritten_query = <<>>
    /\ persona_res = <<>>
    /\ chosen_persona = ""
    /\ decomp = <<>>
    /\ step = <<>>
    /\ multi = NoMulti
    /\ final = NoFinal
    /\ outcome = <<>>
    /\ returned = <<>>
    /\ trace_log = <<>>

\* Line 194
Rewrite ==
    /\ pc = "rewrite"
    /\ \E llm \in RewriteLLM :
        LET r == rewrite(cfg.llm_available, inp.query, inp.chat_history, llm) IN
        /\ rw' = <<[res |-> r, llm |-> IF r.llm_calls > 0 THEN <<llm>> ELSE <<>>]>>
        /\ IF r.kind = "raise"
           THEN /\ outcome' = <<Raise(r.exc)>>
                /\ pc' = "exit"
                /\ UNCHANGED rewritten_query
           ELSE /\ rewritten_query' = r.value
                /\ pc' = "persona"
                /\ UNCHANGED outcome
    /\ UNCHANGED <<fnVars, persona_res, inp, cfg, chosen_persona, decomp, step, multi, final,
                   returned, trace_log>>

\* Lines 196-202
ClassifyPersona ==
    /\ pc = "persona"
    /\ \E llm \in PersonaLLM :
        LET r == persona_classify(cfg.llm_available, llm)
            chosen_persona_key == IF r.key = None THEN "regulatory_specialist" ELSE r.key.s
        IN /\ persona_res' = <<[res |-> r, llm |-> IF r.llm_calls > 0 THEN <<llm>> ELSE <<>>]>>
           /\ chosen_persona' = IF inp.persona = "automatic"
                                THEN chosen_persona_key ELSE inp.persona
    /\ pc' = "decompose"
    /\ UNCHANGED <<fnVars, inp, cfg, rw, rewritten_query, decomp, step, multi, final,
                   outcome, returned, trace_log>>

\* Lines 204-217
Decompose ==
    /\ pc = "decompose"
    /\ \E llm \in DecompLLM(rewritten_query) :
        LET d == decompose(cfg.llm_available, rewritten_query, llm)
            called == IF cfg.llm_available THEN <<llm>> ELSE <<>>
        IN IF d.kind = "raise"
           THEN /\ decomp' = <<[llm |-> called, kind |-> "raise",
                                requires_decomposition |-> FALSE, plan |-> <<>>]>>
                /\ outcome' = <<Raise(d.exc)>>
                /\ pc' = "exit"
           ELSE /\ decomp' = <<[llm |-> called, kind |-> "return",
                                requires_decomposition |-> d.requires_decomposition,
                                plan |-> d.plan]>>
                /\ pc' = IF d.single THEN "single" ELSE "multi"
                /\ UNCHANGED outcome
    /\ UNCHANGED <<fnVars, persona_res, inp, cfg, rw, rewritten_query, chosen_persona, step, multi,
                   final, returned, trace_log>>

\* Lines 218-219 and 259-260: the single-step path.
SingleStep ==
    /\ pc = "single"
    /\ \E r \in single_rag_step_results(cfg.llm_available, cfg.persona_map,
                    chosen_persona, ClassifierLLM, KGBehaviours, VectorBehaviours,
                    RerankLLM, SynthesisLLM) :
        /\ step' = <<r>>
        /\ IF r.kind = "raise"
           THEN /\ outcome' = <<Raise(r.exc)>>
                /\ UNCHANGED final
           ELSE LET final_answer == with_banner(inp.persona,
                                        persona_display_name(chosen_persona), r.answer)
                IN /\ final' = [query_meta |-> r.query_meta, tool_plan |-> r.tool_plan,
                                tool_results |-> r.final_results, answer |-> final_answer]
                   /\ outcome' = <<Return(final_answer)>>
    /\ pc' = "exit"
    /\ UNCHANGED <<fnVars, persona_res, inp, cfg, rw, rewritten_query, chosen_persona, decomp, multi,
                   returned, trace_log>>

\* Lines 221-238: split the plan and submit one future per retrieval step.
MultiSubmit ==
    /\ pc = "multi"
    /\ LET subqs == decomp[1].plan IN
       multi' = [multi EXCEPT !.retrieval_steps = retrieval_steps_of(subqs),
                              !.logic_instruction = last_logic(subqs),
                              !.sub_results = [i \in 1..Len(retrieval_steps_of(subqs)) |-> <<>>]]
    /\ pc' = "multi_run"
    /\ UNCHANGED <<fnVars, persona_res, inp, cfg, rw, rewritten_query, chosen_persona, decomp, step,
                   final, outcome, returned, trace_log>>

\* One worker thread runs the step of retrieval step i to its end; completed
\* lists the futures in the order they finished.
SubStep(i) ==
    /\ pc = "multi_run"
    /\ multi.sub_results[i] = <<>>
    /\ \E r \in single_rag_step_results(cfg.llm_available, cfg.persona_map,
                    chosen_persona, SubClassifierLLM, SubKGBehaviours, VectorBehaviours,
                    {Raise("RetryError")}, SubSynthesisLLM) :
        multi' = [multi EXCEPT !.sub_results[i] = <<r>>, !.completed = Append(@, i)]
    /\ UNCHANGED <<fnVars, persona_res, pc, inp, cfg, rw, rewritten_query, chosen_persona, decomp,
                   step, final, outcome, returned, trace_log>>

\* Lines 239-251: future.result() of every future in submission order once
\* all of them are done (leaving the `with` block waits for the pool).
MultiJoin ==
    /\ pc = "multi_run"
    /\ \A i \in 1..Len(multi.sub_results) : multi.sub_results[i] # <<>>
    /\ LET f == first_raised(multi.sub_results) IN
       IF f # 0
       THEN /\ outcome' = <<Raise(multi.sub_results[f][1].exc)>>
            /\ pc' = "exit"
            /\ UNCHANGED <<multi, final>>
       ELSE /\ multi' = [multi EXCEPT !.scratchpad =
                            scratchpad_of(multi.retrieval_steps, multi.sub_results,
                                          multi.logic_instruction)]
            /\ final' = [final EXCEPT !.tool_results = all_tool_results(multi.sub_results)]
            /\ pc' = "multi_synth"
            /\ UNCHANGED outcome
    /\ UNCHANGED <<fnVars, persona_res, inp, cfg, rw, rewritten_query, chosen_persona, decomp, step,
                   returned, trace_log>>

\* Lines 253-260: the reasoning synthesis call over the scratchpad.
ReasoningSynthesis ==
    /\ pc = "multi_synth"
    /\ \E llm \in {Raise("RetryError"), LLMText(AnswerText(<<>>))} :
        LET synthesis_result == call_llm_with_retry(cfg.llm_available, llm) IN
        /\ multi' = [multi EXCEPT !.synth_calls = @ + 1,
                                  !.synthesis_result = <<synthesis_result>>]
        /\ IF synthesis_result = None
           THEN /\ outcome' = <<Raise("RetryError")>>
                /\ UNCHANGED final
           ELSE LET final_answer ==
                       with_banner(inp.persona, persona_display_name(chosen_persona),
                                   Str("", synthesis_result.text.cites, FALSE, <<>>, ""))
                IN /\ final' = [final EXCEPT !.answer = final_answer]
                   /\ outcome' = <<Return(final_answer)>>
    /\ pc' = "exit"
    /\ UNCHANGED <<fnVars, persona_res, inp, cfg, rw, rewritten_query, chosen_persona, decomp, step,
                   returned, trace_log>>

\* Lines 260-269: the return or the except clause, then the finally clause.
\* An exception raised by log_trace in the finally clause replaces the
\* pending return value.
Exit ==
    /\ pc = "exit"
    /\ LET out == outcome[1]
           handled == IF out.kind = "return" THEN out ELSE run_except(out.exc)
           lt == log_trace(inp.query, inp.persona, final.query_meta, final.tool_plan,
                           final.tool_results, final.answer)
       IN IF trace_calls(out) = 0
          THEN /\ returned' = <<handled>>
               /\ UNCHANGED trace_log
          ELSE /\ returned' = <<IF lt.kind = "raise" THEN Raise(lt.exc) ELSE handled>>
               /\ trace_log' = trace_log \o lt.written
    /\ pc' = "done"
    /\ UNCHANGED <<fnVars, persona_res, inp, cfg, rw, rewritten_query, chosen_persona, decomp, step,
                   multi, final, outcome>>

Next ==
    \/ Rewrite
    \/ ClassifyPersona
    \/ Decompose
    \/ SingleStep
    \/ MultiSubmit
    \/ \E i \in 1..(MaxSubQuestions + 1) : i <= Len(multi.sub_results) /\ SubStep(i)
    \/ MultiJoin
    \/ ReasoningSynthesis
    \/ Exit

Spec == AgentInit /\ [][Next]_vars

(***************************************************************************)
(* Properties of Agent.run                                                 *)
(***************************************************************************)
\* The single-step procedures that ran to their end: the one of the
\* single-step path and those of the sub-questions of a multi-step plan.
FinishedSteps ==
    {step[i] : i \in 1..Len(step)}
        \cup {multi.sub_results[i][1] :
                i \in {j \in 1..Len(multi.sub_results) : multi.sub_results[j] # <<>>}}

\* C1: whatever the query, persona and history, and whatever the rewriter,
\* the classifiers, the decomposition call, the planner, the router, the
\* tools, the reranker and the synthesis call do (raise, return None, return
\* malformed text), Agent.run returns a string and lets no exception escape.
C1_RunReturnsString ==
    pc = "done" =>
        /\ returned[1].kind = "return"
        /\ returned[1].value.py = "str"

\* A run in which a collaborator raised something other than RetryError and
\* that ended with the critical-error message.
C1_Witness ==
    /\ pc = "done"
    /\ outcome[1].kind = "raise"
    /\ outcome[1].exc \notin {"RetryError"}
    /\ returned[1] = Return(Fixed(MsgCritical))

\* C2: every call of Agent.run writes the trace record exactly once, on
\* every exit path (answer, early apology of the single step, high-traffic
\* message, critical-error message): never zero times, never twice.
C2_TraceExactlyOnce ==
    /\ Len(trace_log) <= 1
    /\ pc = "done" => Len(trace_log) = 1
    /\ pc # "done" => trace_log = <<>>

\* The high-traffic exit of a run whose synthesis call failed, with its one
\* trace record.
C2_Witness ==
    /\ pc = "done"
    /\ outcome[1] = Raise("RetryError")
    /\ returned[1] = Return(Fixed(MsgHighTraffic))
    /\ Len(trace_log) = 1
    /\ trace_log[1].final_answer_preview = Fixed("N/A")

\* The graph tool was called first and returned success with more than 10
\* characters of content after stripping whitespace.
GraphDefinitive(r) ==
    /\ r.query_meta # None
    /\ r.query_meta.question_is_graph_suitable
    /\ "query_knowledge_graph" \in PlanNames(r.tool_plan)
    /\ r.final_results # <<>>
    /\ r.final_results[1] # None
    /\ r.final_results[1].tool_name = "query_knowledge_graph"
    /\ r.final_results[1].success
    /\ text_len(content_strip(r.final_results[1].content)) > 10

\* C4: graph short-circuit.  In a single-step procedure whose metadata is
\* graph-suitable, whose plan contains the graph tool and whose graph tool
\* returned success with more than 10 characters of stripped content, the
\* vector-search tool is not invoked at all and the reranker is not invoked.
C4_GraphShortCircuit ==
    \A r \in FinishedSteps :
        GraphDefinitive(r) =>
            /\ ~InSeq("vector_search", r.router_calls)
            /\ ~InSeq("vector_search", r.tools_invoked)
            /\ Len(r.final_results) = 1
            /\ r.rerank_calls = 0

\* A definitive graph answer under a plan that also holds vector_search.
C4_Witness ==
    /\ step # <<>>
    /\ GraphDefinitive(step[1])
    /\ "vector_search" \in PlanNames(step[1].tool_plan)
    /\ step[1].router_calls = <<"query_knowledge_graph">>
    /\ step[1].synth_calls = 1

\* A word of the query is one of the anaphora trigger words, whatever its case.
ContainsTriggerWord(query) ==
    \E i \in 1..Len(query) :
        lower(query[i]) \in {"it", "its", "they", "them", "that", "those", "this", "these"}

\* C5: for a query without any trigger word and a non-empty history, and
\* for any query with an empty history, QueryRewriter.rewrite returns the
\* query unchanged and makes no model call.
C5_RewriteStandalone ==
    (rw # <<>> /\ (inp.chat_history = <<>> \/ ~ContainsTriggerWord(inp.query))) =>
        /\ rw[1].res.kind = "return"
        /\ rw[1].res.value = inp.query
        /\ rw[1].res.llm_calls = 0
        /\ rw[1].llm = <<>>

\* A standalone query rewritten with a model at hand and a non-empty history.
C5_Witness ==
    /\ rw # <<>>
    /\ cfg.llm_available
    /\ inp.chat_history # <<>>
    /\ inp.query = QSponsor
    /\ rewritten_query = QSponsor

\* C6: when the rewrite model call fails (raises or times out) or returns
\* empty or whitespace-only text, QueryRewriter.rewrite returns the original
\* query unchanged and raises nothing.
C6_RewriteFallback ==
    (/\ rw # <<>>
     /\ rw[1].llm # <<>>
     /\ \/ rw[1].llm[1].kind = "raise"
        \/ /\ rw[1].llm[1].kind = "text"
           /\ rw[1].llm[1].text.words = <<>>) =>
        /\ rw[1].res.kind = "return"
        /\ rw[1].res.value = inp.query

\* C9: the run for "Who is the sponsor for Esketamine?", persona
\* regulatory_specialist and empty history, with a graph-suitable
\* classification, a plan that includes the graph tool, a graph tool that
\* returns one serialized fact with its citation and an answer that cites
\* the fact: the rewrite returns the query unchanged, vector search is never
\* called and the final answer holds exactly one reference entry.
C9_EsketamineScenario ==
    (/\ pc = "done"
     /\ inp = [query |-> QSponsor, persona |-> "regulatory_specialist",
               chat_history |-> <<>>]
     /\ step # <<>>
     /\ step[1].query_meta = QueryMetadata("specific_fact_lookup", TRUE)
     /\ "query_knowledge_graph" \in PlanNames(step[1].tool_plan)
     /\ step[1].final_results # <<>>
     /\ step[1].final_results[1] = ToolResult("query_knowledge_graph", TRUE, OneFact)
     /\ step[1].synth_calls = 1
     /\ step[1].answer_text = AnswerText(<<1>>)) =>
        /\ rw[1].res = [kind |-> "return", value |-> QSponsor, llm_calls |-> 0]
        /\ ~InSeq("vector_search", step[1].router_calls)
        /\ returned[1].kind = "return"
        /\ returned[1].value.has_references
        /\ Len(returned[1].value.references) = 1

\* C10: when the single-step procedure reached retrieval and every tool it
\* executed returned success = FALSE, it returns "I searched but could not
\* find any relevant details." and calls neither the reranker nor the
\* synthesis model.
C10_AllToolsFail ==
    \A r \in FinishedSteps :
        (/\ r.tool_plan # <<>>
         /\ \A i \in 1..Len(r.final_results) :
                r.final_results[i] # None /\ ~r.final_results[i].success) =>
            /\ r.kind = "return"
            /\ r.answer = Fixed(MsgNothing)
            /\ r.rerank_calls = 0
            /\ r.synth_calls = 0

\* The graph tool and the vector-search call both came back with
\* success = FALSE.
C10_Witness ==
    /\ step # <<>>
    /\ Len(step[1].final_results) = 2
    /\ \A i \in 1..2 : step[1].final_results[i] # None /\ ~step[1].final_results[i].success
    /\ step[1].answer = Fixed(MsgNothing)

\* C13: when the persona model call fails irrecoverably (it raises),
\* PersonaClassifier.classify returns None, which differs from the default
\* persona "regulatory_specialist" it returns for an invalid token.
C13_PersonaNoneOnFailure ==
    (/\ persona_res # <<>>
     /\ persona_res[1].llm # <<>>
     /\ persona_res[1].llm[1].kind = "raise") =>
        persona_res[1].res.key = [py |-> "None"]

\* C11: in the multi-step path the scratchpad handed to the reasoning
\* synthesis call holds, in submission order, one observation for every
\* retrieval sub-question with that sub-question's answer verbatim; a
\* sub-question whose step returned a fixed failure message is kept.
C11_ScratchpadKeepsAll ==
    pc = "multi_synth" \/ multi.synth_calls > 0 =>
        /\ Len(multi.scratchpad) >= Len(multi.retrieval_steps)
        /\ \A i \in 1..Len(multi.retrieval_steps) :
              /\ multi.sub_results[i] # <<>>
              /\ multi.scratchpad[i] =
                    [kind |-> "observation", sub_q |-> multi.retrieval_steps[i],
                     answer |-> multi.sub_results[i][1].answer]
        /\ \A k \in (Len(multi.retrieval_steps) + 1)..Len(multi.scratchpad) :
              multi.scratchpad[k].kind = "instruction"

\* The reasoning synthesis was called over a scratchpad in which one
\* sub-question found nothing and another one was answered.
C11_Witness ==
    /\ multi.synth_calls = 1
    /\ Len(multi.retrieval_steps) = 2
    /\ multi.scratchpad[1].answer = Fixed(MsgNothing)
    /\ multi.scratchpad[2].answer.msg = ""
    /\ multi.scratchpad[2].answer.cites = <<1>>

\* C14: a single-step procedure calls no retrieval tool, no reranker and no
\* synthesis model unless classification returned metadata and the plan is
\* not empty: without metadata it returns "I had trouble understanding the
\* query.", with an empty plan "I don't have a strategy for this query.".
C14_NoToolUseWithoutPlan ==
    \A r \in FinishedSteps :
        /\ (r.query_meta = None \/ r.tool_plan = <<>>) =>
              /\ r.kind = "return"
              /\ r.router_calls = <<>>
              /\ r.tools_invoked = <<>>
              /\ r.final_results = <<>>
              /\ r.rerank_calls = 0
              /\ r.synth_calls = 0
        /\ r.query_meta = None => r.answer.msg = "I had trouble understanding the query."
        /\ (r.query_meta # None /\ r.tool_plan = <<>>) =>
              r.answer.msg = "I don't have a strategy for this query."

\* A classified query for which the planner had no tool to offer.
C14_Witness ==
    /\ step # <<>>
    /\ cfg.llm_available
    /\ step[1].query_meta # None
    /\ step[1].tool_plan = <<>>
    /\ step[1].answer = Fixed(MsgNoStrategy)
    /\ returned # <<>>

\* The decomposition call gave nothing usable: it was not made or it
\* failed, or its text is no JSON object with a list under "plan".
DecompositionFailed ==
    \/ decomp[1].llm = <<>>
    \/ decomp[1].llm[1].kind = "raise"
    \/ /\ decomp[1].llm[1].kind = "text"
       /\ \/ decomp[1].llm[1].text.shape # "dict"
          \/ ~decomp[1].llm[1].text.has_plan
          \/ ~decomp[1].llm[1].text.plan_is_list

\* C15: whenever the decomposition model call fails or its output is not a
\* valid JSON object {requires_decomposition, plan}, the agent degrades to
\* requires_decomposition = FALSE with plan [rewritten query] and goes on
\* with the single-step path; the turn does not end there with an error.
C15_DecompositionDegrades ==
    (decomp # <<>> /\ DecompositionFailed) =>
        /\ decomp[1].kind = "return"
        /\ decomp[1].requires_decomposition = FALSE
        /\ decomp[1].plan = <<rewritten_query>>
        /\ multi = NoMulti
        /\ pc = "done" => step # <<>>

\* C19: whenever the final synthesis call fails (the synthesis call of the
\* single-step path or the reasoning synthesis call of the multi-step path
\* returns no text), run returns the fixed high-traffic message, not the
\* critical-error message and not an exception.
C19_SynthesisFailureHighTraffic ==
    (/\ pc = "done"
     /\ \/ step # <<>> /\ step[1].synth_calls = 1 /\ step[1].answer_text = [py |-> "None"]
        \/ multi.synth_calls = 1 /\ multi.synthesis_result = <<[py |-> "None"]>>) =>
        /\ returned[1].kind = "return"
        /\ returned[1].value.py = "str"
        /\ returned[1].value.msg = "I'm sorry, the AI models I rely on are currently experiencing high traffic. Please try your question again in a few moments."

\* The reasoning synthesis over a filled scratchpad failed and the run
\* ended with the high-traffic message.
C19_Witness ==
    /\ pc = "done"
    /\ multi.synth_calls = 1
    /\ multi.synthesis_result = <<[py |-> "None"]>>
    /\ multi.scratchpad # <<>>
    /\ returned[1] = Return(Fixed(MsgHighTraffic))

\* a is b with some elements left out, the others in the same order.
RECURSIVE IsSubsequence(_, _)
IsSubsequence(a, b) ==
    IF a = <<>> THEN TRUE
    ELSE IF b = <<>> THEN FALSE
    ELSE IF Head(a) = Head(b) THEN IsSubsequence(Tail(a), Tail(b))
    ELSE IsSubsequence(a, Tail(b))

\* C25: in the multi-step path the observation entries of the scratchpad
\* are in submission order, the order of the retrieval sub-questions in the
\* plan, for every order in which the concurrently running sub-question
\* steps complete; and the reasoning-synthesis call is made only after all
\* sub-question steps have completed.
C25_SubmissionOrder ==
    /\ multi.scratchpad # <<>> =>
          /\ IsSubsequence(multi.retrieval_steps, decomp[1].plan)
          /\ \A i \in 1..Len(multi.retrieval_steps) :
                /\ multi.scratchpad[i].kind = "observation"
                /\ multi.scratchpad[i].sub_q = multi.retrieval_steps[i]
                /\ multi.scratchpad[i].answer = multi.sub_results[i][1].answer
    /\ multi.synth_calls > 0 =>
          /\ Len(multi.completed) = Len(multi.retrieval_steps)
          /\ \A i \in 1..Len(multi.sub_results) : multi.sub_results[i] # <<>>

\* A run whose second sub-question step completed before the first, with
\* different answers, and whose scratchpad went to the synthesis call.
C25_Witness ==
    /\ pc = "done"
    /\ multi.completed = <<2, 1>>
    /\ multi.synth_calls = 1
    /\ multi.sub_results[1][1].answer # multi.sub_results[2][1].answer
    /\ multi.scratchpad[1].answer = multi.sub_results[1][1].answer

\* A sub-question step failed: it raised, or it came back with one of the
\* fixed apologies instead of a synthesized answer.
StepFailed(r) == r.kind = "raise" \/ r.answer.msg # ""

\* C26: in a multi-step plan, when one of the concurrently running
\* sub-question steps fails, the failure stays with that step: the sibling
\* steps run to their end, and their results are merged into the scratchpad
\* and reach the reasoning-synthesis call.
C26_FailureIsolated ==
    (/\ pc = "done"
     /\ Len(multi.sub_results) >= 2
     /\ \E i \in 1..Len(multi.sub_results) : StepFailed(multi.sub_results[i][1])) =>
        /\ \A i \in 1..Len(multi.sub_results) : multi.sub_results[i] # <<>>
        /\ multi.synth_calls = 1
        /\ \A i \in 1..Len(multi.sub_results) :
              ~StepFailed(multi.sub_results[i][1]) =>
                  \E k \in 1..Len(multi.scratchpad) :
                      /\ multi.scratchpad[k].kind = "observation"
                      /\ multi.scratchpad[k].sub_q = multi.retrieval_steps[i]
                      /\ multi.scratchpad[k].answer = multi.sub_results[i][1].answer

\* C27: whenever the decomposition outcome Agent.run acts on has
\* requires_decomposition = false, its plan has exactly one element, the
\* rewritten query; and the query handed to the step of the single-step
\* path, plan[0], is the rewritten query.
C27_SinglePlanIsRewrittenQuery ==
    (decomp # <<>> /\ decomp[1].kind = "return") =>
        /\ ~decomp[1].requires_decomposition => decomp[1].plan = <<rewritten_query>>
        /\ step # <<>> => decomp[1].plan[1] = rewritten_query

\* The sub-questions of the plan that hold a comparison keyword.
LogicPositions(subqs) == {i \in 1..Len(subqs) : has_logic_keyword(subqs[i])}

\* The directives of a scratchpad.
Instructions(scratchpad) ==
    {k \in 1..Len(scratchpad) : scratchpad[k].kind = "instruction"}

\* C28 as stated: in the multi-step path every sub-question of the plan
\* that contains a comparison keyword is never executed as a retrieval
\* query and is appended to the scratchpad as the final directive, and every
\* other sub-question is executed as a retrieval step.
C28_EveryLogicIsDirective ==
    multi.scratchpad # <<>> =>
        LET subqs == decomp[1].plan
            pad == multi.scratchpad
        IN \A i \in 1..Len(subqs) :
             IF i \in LogicPositions(subqs)
             THEN /\ ~InSeq(subqs[i], multi.retrieval_steps)
                  /\ pad[Len(pad)] = FinalInstruction(subqs[i])
             ELSE InSeq(subqs[i], multi.retrieval_steps)

\* C28 (amended): when some sub-question of the plan holds no comparison
\* keyword, the sub-questions without keyword are the retrieval steps, in
\* plan order; the last sub-question with a keyword, if any, is the one
\* directive of the scratchpad, its last entry, and no sub-question with a
\* keyword is executed (earlier ones are neither executed nor appended).
\* When every sub-question holds a keyword, all are executed as retrieval
\* steps and the scratchpad has no directive.
C28_LogicInstruction ==
    multi.scratchpad # <<>> =>
        LET subqs == decomp[1].plan
            pad == multi.scratchpad
            logic == LogicPositions(subqs)
            last == CHOOSE i \in logic : \A j \in logic : j <= i
        IN IF logic = 1..Len(subqs)
           THEN /\ multi.retrieval_steps = subqs
                /\ Instructions(pad) = {}
           ELSE /\ IsSubsequence(multi.retrieval_steps, subqs)
                /\ \A i \in 1..Len(subqs) :
                      InSeq(subqs[i], multi.retrieval_steps) <=> i \notin logic
                /\ Len(multi.retrieval_steps) = Len(subqs) - Cardinality(logic)
                /\ IF logic = {} THEN Instructions(pad) = {}
                   ELSE /\ Instructions(pad) = {Len(pad)}
                        /\ pad[Len(pad)] = FinalInstruction(subqs[last])

\* A plan of a comparison, a retrieval question and a final instruction:
\* one step ran, the final instruction closes the scratchpad and the
\* comparison is in neither.
C28_Witness ==
    /\ pc = "done"
    /\ decomp # <<>>
    /\ decomp[1].plan = <<SubQCompare, SubQA, SubQLogic>>
    /\ multi.retrieval_steps = <<SubQA>>
    /\ Len(multi.scratchpad) = 2
    /\ multi.scratchpad[2] = FinalInstruction(SubQLogic)
    /\ multi.synth_calls = 1

\* C29: every tool name a single-step procedure passes to
\* ToolRouter.execute_tool is a key of the router's registry, and no result
\* the step gets back is the router's "not implemented" failure.
C29_DispatchedToolsRegistered ==
    \A r \in FinishedSteps :
        /\ \A i \in 1..Len(r.router_calls) : r.router_calls[i] \in registry
        /\ \A i \in 1..Len(r.final_results) :
              r.final_results[i] # None =>
                  r.final_results[i].content # NotImplementedContent

\* The tool names of a sequence of names
NameSet(names) == {names[i] : i \in 1..Len(names)}

\* C23: in a single-step procedure that planned tools, got no definitive
\* graph answer and went on to aggregate evidence, every tool of the plan was
\* passed to ToolRouter.execute_tool: no planned tool is left un-invoked.
C23_AllPlannedToolsExecuted ==
    \A r \in FinishedSteps :
        (r.kind = "return" /\ r.tool_plan # <<>> /\ ~r.kg_success) =>
            PlanNames(r.tool_plan) \subseteq NameSet(r.router_calls)

(***************************************************************************)
(* Stand-alone calls of ToolRouter.execute_tool                            *)
(***************************************************************************)
\* Names a caller passes: the registered ones and the agent's "vector_search".
RouterNames == registry \cup {"vector_search"}

\* What a registered function may do when called.
ToolBehaviours(name) ==
    {Return(ToolResult(name, ok, c)) : ok \in BOOLEAN, c \in {EmptyContent, OneFact}}
        \cup {Return(None)}
        \cup {Raise(e) : e \in ExcTypes}

RouterInit ==
    /\ fnIn \in {[tool_name |-> n, tool |-> b] : n \in RouterNames, b \in ToolBehaviours("t")}
    /\ fnOut = <<>>
    /\ AgentIdle

RouterCall ==
    /\ fnOut = <<>>
    /\ fnOut' = <<execute_tool(fnIn.tool_name, fnIn.tool)>>
    /\ UNCHANGED <<fnIn, agentVars>>

RouterNext == RouterCall

SpecRouter == RouterInit /\ [][RouterNext]_vars

\* C3: execute_tool never propagates an exception raised by a registered
\* tool: whatever exception class the tool raises, the call returns a
\* ToolResult with success = FALSE whose content carries the error description.
C3_ToolIsolation ==
    (fnOut # <<>> /\ fnIn.tool_name \in registry /\ fnIn.tool.kind = "raise") =>
        /\ fnOut[1].kind = "return"
        /\ fnOut[1].value.py = "ToolResult"
        /\ fnOut[1].value.success = FALSE
        /\ fnOut[1].value.tool_name = fnIn.tool_name
        /\ fnOut[1].value.content = ToolErrorContent(fnIn.tool.exc)

C3_Witness ==
    /\ fnOut # <<>>
    /\ fnIn.tool_name = "query_knowledge_graph"
    /\ fnIn.tool = Raise("ValueError")
    /\ fnOut[1].kind = "return"
    /\ fnOut[1].value.success = FALSE

\* C12 as stated: a call with a name that is not in the registry returns
\* ToolResult(success = FALSE, content = "[Error: Tool not implemented]") and
\* invokes no registered tool function.
C12_NotImplementedAsStated ==
    (fnOut # <<>> /\ fnIn.tool_name \notin registry) =>
        /\ fnOut[1].kind = "return"
        /\ ~fnOut[1].invoked
        /\ fnOut[1].value.success = FALSE
        /\ fnOut[1].value.content = <<"[Error: Tool not implemented]">>

\* C12 amended: a call with a name that is not in the registry returns
\* ToolResult(tool_name = the name, success = FALSE, content = "[Error: Tool
\* not implemented or misconfigured]") and invokes no registered tool function.
C12_NotImplemented ==
    (fnOut # <<>> /\ fnIn.tool_name \notin registry) =>
        /\ fnOut[1].kind = "return"
        /\ ~fnOut[1].invoked
        /\ fnOut[1].value.py = "ToolResult"
        /\ fnOut[1].value.tool_name = fnIn.tool_name
        /\ fnOut[1].value.success = FALSE
        /\ fnOut[1].value.content = <<"[Error: Tool not implemented or misconfigured]">>

\* The unregistered "vector_search" was asked for while a function that
\* would have succeeded was at hand.
C12_Witness ==
    /\ fnOut # <<>>
    /\ fnIn.tool_name = "vector_search"
    /\ fnIn.tool.kind = "return"
    /\ fnIn.tool.value # None
    /\ fnIn.tool.value.success
    /\ ~fnOut[1].invoked
    /\ ~fnOut[1].value.success

(***************************************************************************)
(* Stand-alone calls of ToolPlanner.plan                                   *)
(***************************************************************************)
MaxPrefs == 3

PlanTools == {"query_knowledge_graph", "retrieve_general_text", "vector_search"}
PlanWeights == {0, 25, 26, 75, 100}
PlanIntents == {"specific_fact_lookup", "simple_summary", "unknown"}

PrefEntries == {[tool_name |-> t, weight |-> w] : t \in PlanTools, w \in PlanWeights}
PrefTables == UNION {[1..k -> PrefEntries] : k \in 0..MaxPrefs}

PlanInit ==
    /\ fnIn \in
         {[persona_map |-> m, coverage_threshold |-> th, intent |-> it,
           persona |-> "Regulatory Specialist"] :
             m \in {[k \in {key} |-> t] : key \in {"regulatory_specialist", "default"},
                                          t \in PrefTables} \cup {NoPersonaMap},
             th \in {AgentThreshold, DefaultThreshold},
             it \in PlanIntents}
    /\ fnOut = <<>>
    /\ AgentIdle

PlanCall ==
    /\ fnOut = <<>>
    /\ fnOut' = <<plan(fnIn.persona_map, fnIn.coverage_threshold, fnIn.intent, fnIn.persona)>>
    /\ UNCHANGED <<fnIn, agentVars>>

PlanNext == PlanCall

SpecPlan == PlanInit /\ [][PlanNext]_vars

RECURSIVE CoverageSum(_)
CoverageSum(items) ==
    IF items = <<>> THEN 0
    ELSE Head(items).estimated_coverage + CoverageSum(Tail(items))

\* The tools of the persona's table that clear the negligible-contribution floor.
EligibleTools(args) ==
    LET w == persona_tool_weights(persona_prefs(args.persona_map, args.persona)) IN
    {w[i].name : i \in {j \in 1..Len(w) :
        round2(final_score(w[j].weight, intent_score(args.intent, w[j].name)))
            > NegligibleCoverage}}

\* C7: in the plan returned by ToolPlanner.plan the coverage of the items
\* before the last one sums to strictly less than coverage_threshold, and the
\* sum including the last item reaches the threshold unless the persona's
\* table was exhausted (every tool of it that clears the floor is in the plan).
C7_CoverageBounded ==
    (fnOut # <<>> /\ fnOut[1] # <<>>) =>
        LET p == fnOut[1] IN
        /\ CoverageSum(SubSeq(p, 1, Len(p) - 1)) < fnIn.coverage_threshold
        /\ \/ CoverageSum(p) >= fnIn.coverage_threshold
           \/ EligibleTools(fnIn) \subseteq PlanNames(p)

\* The tools of the persona's table in the order plan walks them.
SortedTools(args) ==
    sort_desc(scored_tools(persona_tool_weights(persona_prefs(args.persona_map,
                                                              args.persona)),
                           args.intent))

\* The running total when the walk comes to position i of the sorted tools.
RECURSIVE TotalBefore(_, _)
TotalBefore(tools, i) ==
    IF i <= 1 THEN 0
    ELSE TotalBefore(tools, i - 1)
           + (IF round2(tools[i - 1].score) > NegligibleCoverage
              THEN round2(tools[i - 1].score) ELSE 0)

\* The walk comes to position i: no tool before it brought the running
\* total to the threshold.
WalkReaches(tools, i, coverage_threshold) ==
    \A j \in 1..(i - 1) :
        round2(tools[j].score) > NegligibleCoverage =>
            ~total_reaches(TotalBefore(tools, j), round2(tools[j].score),
                           coverage_threshold)

\* final_score > 0.1 (0.1 is the double nearest to 100 thousandths)
ScoreAboveTenth(score) ==
    score.milli > 100 \/ (score.milli = 100 /\ score.ulp > 0)

PlanItems(items) == {items[i] : i \in 1..Len(items)}

\* C21 as stated: a tool is skipped exactly when its final_score is <= 0.1.
\* No tool with final_score <= 0.1 is in the plan, and every tool with
\* final_score > 0.1 that the walk reaches before the running total meets
\* the threshold is in the plan with estimated_coverage = round(final_score, 2).
C21_SkipAtFinalScore ==
    fnOut # <<>> =>
        LET tools == SortedTools(fnIn) IN
        \A i \in 1..Len(tools) :
            /\ ~ScoreAboveTenth(tools[i].score) =>
                    tools[i].name \notin PlanNames(fnOut[1])
            /\ (/\ ScoreAboveTenth(tools[i].score)
                /\ WalkReaches(tools, i, fnIn.coverage_threshold)) =>
                    ToolPlanItem(tools[i].name, round2(tools[i].score))
                        \in PlanItems(fnOut[1])

\* C21 (amended): a tool is skipped exactly when its estimated_coverage,
\* round(final_score, 2), is <= 0.1.  No tool whose final_score rounds to 0.1
\* or less is in the plan, and every tool whose final_score rounds to more
\* than 0.1 and that the walk reaches before the running total meets the
\* threshold is in the plan with estimated_coverage = round(final_score, 2).
C21_SkipAtRoundedScore ==
    fnOut # <<>> =>
        LET tools == SortedTools(fnIn) IN
        \A i \in 1..Len(tools) :
            /\ round2(tools[i].score) <= NegligibleCoverage =>
                    tools[i].name \notin PlanNames(fnOut[1])
            /\ (/\ round2(tools[i].score) > NegligibleCoverage
                /\ WalkReaches(tools, i, fnIn.coverage_threshold)) =>
                    ToolPlanItem(tools[i].name, round2(tools[i].score))
                        \in PlanItems(fnOut[1])

\* A walk that includes one tool and then reaches, below the threshold, a
\* tool whose final_score of 0.104 rounds to 0.1, and skips it.
C21_Witness ==
    /\ fnOut # <<>>
    /\ Len(fnOut[1]) = 1
    /\ LET tools == SortedTools(fnIn) IN
       \E i \in 2..Len(tools) :
           /\ tools[i].score.milli = 104
           /\ WalkReaches(tools, i, fnIn.coverage_threshold)
           /\ tools[i].name \notin PlanNames(fnOut[1])

\* The position of a tool's first entry in a preference table, and the
\* weight of its last entry (the weight the table's dict holds for it).
TablePos(prefs, name) ==
    CHOOSE i \in 1..Len(prefs) :
        /\ prefs[i].tool_name = name
        /\ \A j \in 1..(i - 1) : prefs[j].tool_name # name

TableWeight(prefs, name) ==
    prefs[CHOOSE i \in 1..Len(prefs) :
            /\ prefs[i].tool_name = name
            /\ \A j \in (i + 1)..Len(prefs) : prefs[j].tool_name # name].weight

TableScore(args, name) ==
    final_score(TableWeight(persona_prefs(args.persona_map, args.persona), name),
                intent_score(args.intent, name))

\* C22: the items of the plan returned by ToolPlanner.plan are in
\* non-increasing order of final_score, and tools of equal final_score keep
\* their relative order from the persona's preference table.
C22_SortedStable ==
    fnOut # <<>> =>
        LET p == fnOut[1]
            prefs == persona_prefs(fnIn.persona_map, fnIn.persona)
        IN \A i, j \in 1..Len(p) :
             i < j =>
               LET a == TableScore(fnIn, p[i].tool_name)
                   b == TableScore(fnIn, p[j].tool_name)
               IN /\ score_ge(a, b)
                  /\ a = b => TablePos(prefs, p[i].tool_name)
                                < TablePos(prefs, p[j].tool_name)

\* A plan of three items whose first two have equal final_score and whose
\* last stands first in the table: the sort moved it behind the tied pair.
C22_Witness ==
    /\ fnOut # <<>>
    /\ Len(fnOut[1]) = 3
    /\ TableScore(fnIn, fnOut[1][1].tool_name) = TableScore(fnIn, fnOut[1][2].tool_name)
    /\ TablePos(persona_prefs(fnIn.persona_map, fnIn.persona), fnOut[1][3].tool_name) = 1

(***************************************************************************)
(* Stand-alone runs of the evidence, synthesis and references stages       *)
(* (src/src/agent.py, lines 151-187) over given ranked documents           *)
(***************************************************************************)
MaxRankedDocs == 3
MaxCites == 2

\* A ranked document as the retrievers format it, paired with the citation
\* it carries (<<>> when the document has no "\nCitation: " part).
RefDoc(text, c) ==
    [doc |-> <<text, "Citation: " \o c>>, cit |-> <<<<c>>>>]
RefDocBare(text) == [doc |-> <<text>>, cit |-> <<>>]

RefDocKinds ==
    {RefDoc("Evidence from document: text", "c1"),
     RefDoc("Evidence from document: text", "c2"),
     RefDocBare("Evidence from document: text")}

\* Bracket numbers an answer may cite: 0, the evidence numbers, and one past them.
CiteNumbers == 0..(MaxRankedDocs + 1)

RefsInit ==
    /\ fnIn \in
         {[ranked_docs |-> d, cites |-> c, intent |-> it] :
             d \in UNION {[1..k -> RefDocKinds] : k \in 1..MaxRankedDocs},
             c \in UNION {[1..k -> CiteNumbers] : k \in 0..MaxCites},
             it \in {"specific_fact_lookup", "simple_summary"}}
    /\ fnOut = <<>>
    /\ AgentIdle

RefsCall ==
    /\ fnOut = <<>>
    /\ LET st == [StepStart EXCEPT
                    !.query_meta = QueryMetadata(fnIn.intent, FALSE),
                    !.tool_plan = <<ToolPlanItem("vector_search", 100)>>,
                    !.ranked_docs = [i \in 1..Len(fnIn.ranked_docs) |->
                                        fnIn.ranked_docs[i].doc]]
       IN fnOut' = <<step_references(
                       step_synthesize(st, TRUE, LLMText(AnswerText(fnIn.cites))))>>
    /\ UNCHANGED <<fnIn, agentVars>>

RefsNext == RefsCall

SpecRefs == RefsInit /\ [][RefsNext]_vars

\* C8: reference list precision.  For an answer (not a summary) with
\* bracket citations over evidence that all carries citations, the step
\* returns an answer whose references section lists exactly the citations of
\* the evidence numbers cited in the answer, each citation once, and no
\* citation of an evidence number the answer does not cite.
C8_ReferencePrecision ==
    (/\ fnOut # <<>>
     /\ fnIn.intent # "simple_summary"
     /\ fnIn.cites # <<>>
     /\ \A i \in 1..Len(fnIn.ranked_docs) : fnIn.ranked_docs[i].cit # <<>>) =>
        LET cited == {fnIn.cites[k] : k \in 1..Len(fnIn.cites)}
                        \cap (1..Len(fnIn.ranked_docs))
            expected == {fnIn.ranked_docs[n].cit[1] : n \in cited}
            out == fnOut[1]
        IN /\ out.kind = "return"
           /\ out.answer.has_references
           /\ {out.answer.references[i] : i \in 1..Len(out.answer.references)} = expected
           /\ \A i, j \in 1..Len(out.answer.references) :
                 out.answer.references[i] = out.answer.references[j] => i = j

\* The citations the ranked documents carry, in document order.
RECURSIVE CarriedLinks(_)
CarriedLinks(docs) ==
    IF docs = <<>> THEN <<>>
    ELSE (IF Head(docs).cit = <<>> THEN <<>> ELSE <<Head(docs).cit[1]>>)
            \o CarriedLinks(Tail(docs))

\* The link Python reads at a zero-based index that may be negative.
LinkAt(links, idx) == links[IF idx >= 0 THEN idx + 1 ELSE Len(links) + idx + 1]

\* The links of the bracket numbers in the order the answer uses them, each
\* link once.
RECURSIVE FirstUseLinks(_, _, _)
FirstUseLinks(cites, links, acc) ==
    IF cites = <<>> THEN acc
    ELSE LET link == links[Head(cites)] IN
         FirstUseLinks(Tail(cites), links,
                       IF \E k \in 1..Len(acc) : acc[k] = link THEN acc
                       ELSE Append(acc, link))

\* The step returned an answer with a references section.
RefsListed ==
    /\ fnOut # <<>>
    /\ fnOut[1].kind = "return"
    /\ fnOut[1].answer.has_references

C30_CitationPairing ==
    (fnOut # <<>> /\ fnIn.intent # "simple_summary") =>
        LET n == Len(fnIn.ranked_docs)
            cited == {fnIn.cites[k] : k \in 1..Len(fnIn.cites)} \cap (1..n)
            expected == {fnIn.ranked_docs[k].cit[1] :
                            k \in {j \in cited : fnIn.ranked_docs[j].cit # <<>>}}
            out == fnOut[1]
        IN /\ out.kind = "return"
           /\ {out.answer.references[i] : i \in 1..Len(out.answer.references)}
                = expected

(***************************************************************************)
(* Stand-alone calls of Agent._rerank_with_gemini                          *)
(***************************************************************************)
MaxRerankDocs == 6
MaxRerankIndices == 2

\* The i-th retrieved document; retrieval can return the same text twice.
RerankDoc(i) == <<"Evidence from document: text", i % 4>>
RerankDocs(n) == [i \in 1..n |-> RerankDoc(i)]

\* Index values the reranking model may answer with.
RerankIndexValues == (0 - MaxRerankDocs - 1)..(MaxRerankDocs + 1)

RerankOutcomes ==
    {Raise("RetryError"), LLMText(RerankNotAList)}
        \cup {LLMText(RerankList(l)) :
                l \in UNION {[1..k -> RerankIndexValues] : k \in 0..MaxRerankIndices}}

RerankInit ==
    /\ fnIn \in [llm_available : BOOLEAN,
                 documents : {RerankDocs(n) : n \in 0..MaxRerankDocs},
                 llm : RerankOutcomes]
    /\ fnOut = <<>>
    /\ AgentIdle

RerankCall ==
    /\ fnOut = <<>>
    /\ fnOut' = <<rerank_with_gemini(fnIn.llm_available, fnIn.documents, fnIn.llm)>>
    /\ UNCHANGED <<fnIn, agentVars>>

RerankNext == RerankCall

SpecRerank == RerankInit /\ [][RerankNext]_vars

\* The reranking model was asked and answered with text.
RerankAnswered ==
    /\ fnOut # <<>>
    /\ fnIn.llm_available
    /\ fnIn.documents # <<>>
    /\ fnIn.llm.kind = "text"

\* documents[:5]
FirstFive(documents) ==
    [i \in 1..(IF Len(documents) < 5 THEN Len(documents) ELSE 5) |-> documents[i]]

\* C16 as stated: when the model's parsed output is not a list, or is an
\* empty list, the reranker returns the first 5 input documents in their
\* input order.
C16_FallbackAsStated ==
    (RerankAnswered /\ (~fnIn.llm.text.is_list \/ fnIn.llm.text.indices = <<>>)) =>
        /\ fnOut[1].kind = "return"
        /\ fnOut[1].value = FirstFive(fnIn.documents)

\* C16 amended: when the model's parsed output is not a list the reranker
\* returns the first 5 input documents in their input order; when it is an
\* empty list the reranker returns an empty list.
C16_Fallback ==
    /\ (RerankAnswered /\ ~fnIn.llm.text.is_list) =>
          /\ fnOut[1].kind = "return"
          /\ fnOut[1].value = FirstFive(fnIn.documents)
    /\ (RerankAnswered /\ fnIn.llm.text.is_list /\ fnIn.llm.text.indices = <<>>) =>
          /\ fnOut[1].kind = "return"
          /\ fnOut[1].value = <<>>

\* Six documents went in, the model's text was no list, five came back.
C16_Witness ==
    /\ RerankAnswered
    /\ ~fnIn.llm.text.is_list
    /\ Len(fnIn.documents) = 6
    /\ Len(fnOut[1].value) = 5

\* C17: every index the model returns that is out of range of the n input
\* documents (below 0, or n and above) is silently dropped: the reranker
\* does not raise and returns no document for such an index.
C17_IndexSafety ==
    (RerankAnswered /\ fnIn.llm.text.is_list) =>
        LET indices == fnIn.llm.text.indices
            in_range == {k \in 1..Len(indices) :
                            indices[k] >= 0 /\ indices[k] < Len(fnIn.documents)}
        IN /\ fnOut[1].kind = "return"
           /\ Len(fnOut[1].value) = Cardinality(in_range)

\* Occurrences of x in seq
Occurrences(x, seq) == Cardinality({i \in 1..Len(seq) : seq[i] = x})

\* C18: the list the reranker returns is a permutation or a subset of its
\* input: every returned document is an input document and no document
\* occurs more often in the output than in the input.  Stated for the calls
\* in which every index the model returned is in range.
C18_PermutationOrSubset ==
    (/\ fnOut # <<>>
     /\ fnOut[1].kind = "return"
     /\ fnIn.llm.kind = "text"
     /\ \A k \in 1..Len(fnIn.llm.text.indices) :
            fnIn.llm.text.indices[k] >= 0
                /\ fnIn.llm.text.indices[k] < Len(fnIn.documents)) =>
        \A k \in 1..Len(fnOut[1].value) :
            /\ Occurrences(fnOut[1].value[k], fnIn.documents) >= 1
            /\ Occurrences(fnOut[1].value[k], fnOut[1].value)
                  <= Occurrences(fnOut[1].value[k], fnIn.documents)

(***************************************************************************)
(* Stand-alone use of one QueryClassifier: the same query classified twice *)
(***************************************************************************)
ClassifyInit ==
    /\ fnIn \in [llm_available : BOOLEAN, query : Queries,
                 first : ClassifierLLM, second : ClassifierLLM]
    /\ fnOut = <<>>
    /\ AgentIdle

\* classify(fnIn.query): the first call, then the second.
ClassifyCall ==
    /\ Len(fnOut) < 2
    /\ LET llm == IF fnOut = <<>> THEN fnIn.first ELSE fnIn.second IN
       fnOut' = Append(fnOut,
                       [query |-> fnIn.query,
                        result |-> query_classify(fnIn.llm_available, llm),
                        llm_calls |-> query_classify_llm_calls(fnIn.llm_available)])
    /\ UNCHANGED <<fnIn, agentVars>>

ClassifyNext == ClassifyCall

SpecClassify == ClassifyInit /\ [][ClassifyNext]_vars

\* C20: classifying the same query twice with one QueryClassifier returns
\* equal results and invokes the language model exactly once.
C20_ClassifierCache ==
    (Len(fnOut) = 2 /\ fnIn.llm_available /\ fnOut[1].query = fnOut[2].query) =>
        /\ fnOut[1].result = fnOut[2].result
        /\ fnOut[1].llm_calls + fnOut[2].llm_calls = 1

====
